---- MODULE Spec2Model ----
(***************************************************************************)
(* State-machine model of the WhatsApp <-> Slack relay (src/server.js).    *)
(*                                                                         *)
(* State: the Redis key space (session:{id}, thread:{ts}), the in-process  *)
(* pendingTimers map, the timer handles created by setTimeout together     *)
(* with the sendBusyMessage run each one starts, the threads that exist in *)
(* the Slack channel, and the request handlers that are in flight.         *)
(*                                                                         *)
(* Every handler is cut at its awaits: one action is the effect of the     *)
(* awaited call followed by the synchronous code that runs up to the next  *)
(* await.  Handlers of different requests interleave freely at these       *)
(* points, as they do on the Node event loop.  Redis commands themselves   *)
(* are atomic and are assumed not to fail.                                 *)
(***************************************************************************)
EXTENDS Integers, Sequences, FiniteSets, TLC

\* ---------------------------------------------------------------------
\* Bounds of the model
\* ---------------------------------------------------------------------
MaxStarts == 2          \* /start requests that reach Slack (threads created)
MaxInflight == 2        \* request handlers that can be suspended at once
MaxFiles == 2           \* files attached to one Slack message
MaxViews == 1           \* "Edit Contact Roles" modals open at once

Sessions == {"abc-123", "zzz"}          \* session ids the AI platform sends
Slots == 1..MaxInflight
Threads == 1..MaxStarts                 \* Slack ts values, in creation order

\* The directory data requests can carry.
Phones == {"15551234567", "15550000000"}    \* customer phone numbers
ContactNames == {"Dana", "Lee"}             \* names an agent types in the modal
Roles == {"academy", "vip"}                 \* role tags, as stored (lower case)
Users == {"U1", "U2"}                       \* Slack user ids
Schools == {"academy", "daycare"}           \* category tags, as stored
Intents == {"registration", "payment"}      \* subcategory tags, as stored
AssignKeys == Schools \X Intents            \* assign:{school}:{intent}

\* An absent value (null / undefined) is the empty sequence and a present
\* value v is <<v>>.
Null == <<>>
Some(v) == <<v>>
Val(o) == o[1]

\* ---------------------------------------------------------------------
\* Program constants
\* ---------------------------------------------------------------------
ThreeMinDelay == 3 * 60 * 1000          \* setTimeout delay of threeMin, ms
TenMinDelay == 10 * 60 * 1000           \* setTimeout delay of tenMin, ms
TickMs == 60 * 1000                     \* granularity of the clock, ms

VARIABLES
    redis,          \* the key space: session:{id}, thread:{ts}, contact:{phone},
                    \* roles, assign:{school}:{intent}
    pendingTimers,  \* Sessions -> option of [threeMin, tenMin] (handle ids)
    timers,         \* sequence of timer handles, index = handle id
    slackThreads,   \* sequence of session ids: the thread-opening messages
    handlers,       \* Slots -> suspended request handler
    SESSIONS,       \* the in-memory session table of the earliest variant
    views           \* the "Edit Contact Roles" modals open in Slack

vars == <<redis, pendingTimers, timers, slackThreads, handlers, SESSIONS, views>>

\* ---------------------------------------------------------------------
\* Redis session management
\* ---------------------------------------------------------------------

\* JSON.stringify(session) / JSON.parse(data): the stored value is the
\* serialised field list, the parsed value is the object.
JSONStringify(session) ==
    <<session.session_id, session.thread_ts, session.profile_name>>
JSONParse(data) ==
    [session_id |-> data[1], thread_ts |-> data[2], profile_name |-> data[3]]

\* saveSession storing another ts than the one chat.postMessage returned.
NewSessionObject_WrongTs(sessionId, threadTs, profileName) ==
    [session_id |-> sessionId, thread_ts |-> threadTs + 1,
     profile_name |-> IF profileName = "" THEN "Customer" ELSE profileName]

\* The object saveSession builds (created_at, a wall-clock stamp, is left
\* out): profile_name is profileName || 'Customer'.
NewSessionObject(sessionId, threadTs, profileName) ==
    [session_id |-> sessionId, thread_ts |-> threadTs,
     profile_name |-> IF profileName = "" THEN "Customer" ELSE profileName]

\* redis.set(`session:${sessionId}`, JSON.stringify(session))
SetSessionKey(r, sessionId, session) ==
    [r EXCEPT !.session[sessionId] = Some(JSONStringify(session))]

\* saveSession without its reverse-lookup write.
SetThreadKey_Omitted(r, threadTs, sessionId) == r

\* redis.set(`thread:${threadTs}`, sessionId)
SetThreadKey(r, threadTs, sessionId) ==
    [r EXCEPT !.thread[threadTs] = Some(sessionId)]

\* deleteSession without the delete of the forward record.
DelSessionKey_Omitted(r, sessionId) == r

\* redis.del(`session:${sessionId}`): deleting a missing key is not an error
DelSessionKey(r, sessionId) == [r EXCEPT !.session[sessionId] = Null]

\* redis.del(`thread:${threadTs}`)
DelThreadKey(r, threadTs) == [r EXCEPT !.thread[threadTs] = Null]

\* getSession: data ? JSON.parse(data) : null
getSession(r, sessionId) ==
    IF r.session[sessionId] = Null THEN Null
    ELSE Some(JSONParse(Val(r.session[sessionId])))

\* getSessionByThread: reverse pointer, then the forward record
getSessionByThread(r, threadTs) ==
    IF r.thread[threadTs] = Null THEN Null
    ELSE getSession(r, Val(r.thread[threadTs]))

\* String.prototype.trim and toLowerCase on the strings the model uses.
Trim(text) == IF text = " VIP " THEN "VIP" ELSE text
ToLower(text) ==
    CASE text = "VIP" -> "vip"
      [] text = "Academy" -> "academy"
      [] OTHER -> text

\* A stored contact: JSON.stringify writes the fields the object has, so a
\* contact saved without a roles field reads back without one (roles is
\* Null); saved_at, a wall-clock stamp, is left out.
ContactStringify(contact) == <<contact.name, contact.phone, contact.roles>>
ContactParse(data) == [name |-> data[1], phone |-> data[2], roles |-> data[3]]

\* The object the save_contact_modal submission stores: { name, phone,
\* saved_at }, no roles field.
NewContactObject(name, phone) == [name |-> name, phone |-> phone, roles |-> Null]

\* redis.set(`contact:${phone}`, JSON.stringify(contact))
SetContactKey(r, phone, contact) ==
    [r EXCEPT !.contact[phone] = Some(ContactStringify(contact))]

\* redis.sAdd('roles', roleName) / redis.sRem('roles', roleName)
sAddRoles(r, roleName) == [r EXCEPT !.roles = @ \cup {roleName}]
sRemRoles(r, roleName) == [r EXCEPT !.roles = @ \ {roleName}]

\* redis.sMembers(`assign:${school}:${intent}`): a key nothing was added to
\* has no members.
sMembersAssign(r, school, intent) ==
    IF <<school, intent>> \in AssignKeys THEN r.assign[<<school, intent>>] ELSE {}

\* redis.sAdd replacing the members of the key.
sAddAssign_Replace(r, key, uid) == [r EXCEPT !.assign[key] = {uid}]

\* redis.sAdd / redis.sRem / redis.del on `assign:${school}:${userType}`
sAddAssign(r, key, uid) == [r EXCEPT !.assign[key] = @ \cup {uid}]
sRemAssign(r, key, uid) == [r EXCEPT !.assign[key] = @ \ {uid}]
DelAssign(r, key) == [r EXCEPT !.assign[key] = {}]

\* getAllContacts: a parsed contact without a roles field gets roles = [].
ReadContact(data) ==
    LET contact == ContactParse(data)
    IN IF contact.roles = Null THEN [contact EXCEPT !.roles = Some({})] ELSE contact

\* localeCompare on the names the model uses.
NameOrder == <<"Dana", "Lee", "Pat", "Unknown">>
NameRank(name) == CHOOSE i \in DOMAIN NameOrder : NameOrder[i] = name

\* contacts.sort((a, b) => a.name.localeCompare(b.name)): a stable sort.
RECURSIVE InsertByName(_, _)
InsertByName(sorted, contact) ==
    IF sorted = <<>> THEN <<contact>>
    ELSE IF NameRank(contact.name) < NameRank(Head(sorted).name)
         THEN <<contact>> \o sorted
         ELSE <<Head(sorted)>> \o InsertByName(Tail(sorted), contact)
RECURSIVE SortByName(_)
SortByName(contacts) ==
    IF contacts = <<>> THEN <<>>
    ELSE InsertByName(SortByName(SubSeq(contacts, 1, Len(contacts) - 1)),
                      contacts[Len(contacts)])

\* redis.keys('contact:*'): the stored contact keys, in an order Redis does
\* not fix.
ContactKeyOrders(r) ==
    LET stored == {p \in Phones : r.contact[p] # Null}
    IN {keys \in [1..Cardinality(stored) -> stored] :
            \A i, j \in DOMAIN keys : i # j => keys[i] # keys[j]}

\* ---------------------------------------------------------------------
\* Auto-response timers
\* ---------------------------------------------------------------------

\* setTimeout(() => sendBusyMessage(sessionId, message), delay)
NewTimer(sessionId, message, delay) ==
    [sid |-> sessionId, message |-> message, remaining |-> delay,
     status |-> "pending", session |-> Null,
     sentWhatsApp |-> FALSE, sentSlack |-> FALSE]

\* clearTimeout(handle): only a handle that has not fired yet is affected
ClearTimeout(tm, id) ==
    IF tm[id].status = "pending"
    THEN [tm EXCEPT ![id].status = "cleared", ![id].remaining = 0]
    ELSE tm

\* scheduleAutoResponses: two new handles, stored under the session id
\* (an existing entry is overwritten, its handles are not cleared)
scheduleAutoResponses(pt, tm, sessionId) ==
    LET threeMin == Len(tm) + 1
        tenMin == Len(tm) + 2
    IN [timers |-> tm \o <<NewTimer(sessionId, "busyMessage3Min", ThreeMinDelay),
                            NewTimer(sessionId, "busyMessage10Min", TenMinDelay)>>,
        pendingTimers |-> [pt EXCEPT ![sessionId] =
                              Some([threeMin |-> threeMin, tenMin |-> tenMin])]]

\* cancelAutoResponses without the if (timers) guard: reading .threeMin of
\* undefined throws.
cancelAutoResponses_NoGuard(pt, tm, sessionId) ==
    IF pt[sessionId] # Null
    THEN [timers |-> ClearTimeout(ClearTimeout(tm, Val(pt[sessionId]).threeMin),
                                  Val(pt[sessionId]).tenMin),
          pendingTimers |-> [pt EXCEPT ![sessionId] = Null],
          threw |-> FALSE]
    ELSE [timers |-> tm, pendingTimers |-> pt, threw |-> TRUE]

\* cancelAutoResponses: if (timers) { clearTimeout x2; delete }.
\* threw records a TypeError escaping the function.
cancelAutoResponses(pt, tm, sessionId) ==
    IF pt[sessionId] # Null
    THEN [timers |-> ClearTimeout(ClearTimeout(tm, Val(pt[sessionId]).threeMin),
                                  Val(pt[sessionId]).tenMin),
          pendingTimers |-> [pt EXCEPT ![sessionId] = Null],
          threw |-> FALSE]
    ELSE [timers |-> tm, pendingTimers |-> pt, threw |-> FALSE]

\* deleteSession run from its call to its return with nothing interleaved:
\* cancelAutoResponses, then the two redis.del.
deleteSession(r, pt, tm, sessionId, threadTs) ==
    LET c == cancelAutoResponses(pt, tm, sessionId)
    IN [redis |-> IF c.threw THEN r
                  ELSE DelThreadKey(DelSessionKey(r, sessionId), threadTs),
        pendingTimers |-> c.pendingTimers,
        timers |-> c.timers,
        threw |-> c.threw]

\* ---------------------------------------------------------------------
\* Request handlers
\* ---------------------------------------------------------------------
\* A handler in flight: its position, its locals (sid, ts, session, event),
\* the collaborator calls it has issued so far, the HTTP response it has
\* written (res) and whether an error reached the catch of its endpoint.
\* in is the request's input (the parameters of a /start, the payload of a
\* Slack interaction or command) and work what the handler has computed
\* from it so far.
Idle == [kind |-> "idle", pc |-> "idle", sid |-> Null, ts |-> Null,
         session |-> Null, event |-> Null, calls |-> <<>>, res |-> Null,
         caught |-> FALSE, in |-> Null, work |-> Null]

IsIdle(h) == handlers[h].kind = "idle"

\* ---- HTTP responses to the AI platform ------------------------------
ResSuccess == [code |-> 200, status |-> "success"]
ResWarning == [code |-> 200, status |-> "warning"]
ResError == [code |-> 500, status |-> "error"]

\* ---- Collaborator calls ----------------------------------------------

\* POST {AI}/live-agent/outbound/{sessionId} {message_type:'text', text}
Outbound(sessionId, text) ==
    [api |-> "outbound", sid |-> Some(sessionId), ts |-> Null, text |-> text]

\* POST {AI}/live-agent/disconnect/{sessionId}
Disconnect(sessionId) ==
    [api |-> "disconnect", sid |-> Some(sessionId), ts |-> Null, text |-> ""]

\* A message posted into thread threadTs of the support channel.
ThreadPost(threadTs, text) ==
    [api |-> "thread_post", sid |-> Null, ts |-> Some(threadTs), text |-> text]

\* chat.update of the thread-opening message.
ChatUpdate(messageTs) ==
    [api |-> "chat_update", sid |-> Null, ts |-> Some(messageTs),
     text |-> "ticketClosed"]

\* chat.postMessage into the broadcast channel.
BroadcastPost(text) ==
    [api |-> "broadcast_post", sid |-> Null, ts |-> Null, text |-> text]

\* ---- Slack message events --------------------------------------------

\* The message events Slack delivers: in the support channel a top-level
\* message or a reply in an existing thread, in the broadcast channel a
\* top-level message; written by a human or carrying bot_id and/or
\* subtype 'bot_message'; with or without text; without files.
Events ==
    [channel : {"support"}, bot_id : BOOLEAN, subtype : {"none", "bot_message"},
     thread_ts : {Null} \cup {Some(t) : t \in Threads}, text : {"", "On it"},
     files : {<<>>}]
    \cup
    [channel : {"broadcast"}, bot_id : BOOLEAN, subtype : {"none", "bot_message"},
     thread_ts : {Null}, text : {"", "On it"}, files : {<<>>}]

\* A file of a message is its mimetype; fileType is
\* file.mimetype?.split('/')[0].
MimeTypes == {"image/png", "audio/ogg", "application/pdf"}
FileType(mimetype) ==
    CASE mimetype = "image/png" -> "image"
      [] mimetype = "audio/ogg" -> "audio"
      [] mimetype = "application/pdf" -> "application"

\* ['image', 'video', 'audio'].includes(fileType)
Forwardable(fileType) == fileType \in {"image", "video", "audio"}

\* A reply written by a human in a thread with files attached (Slack sets
\* subtype 'file_share'), with or without a caption.
FileReplies ==
    [channel : {"support"}, bot_id : {FALSE}, subtype : {"file_share"},
     thread_ts : {Some(t) : t \in Threads}, text : {"", "On it"},
     files : UNION {[1..n -> MimeTypes] : n \in 1..MaxFiles}]

\* handleMessage without the subtype half of its bot filter.
IsBotMessage_BotIdOnly(event) == event.bot_id

\* event.bot_id || event.subtype === 'bot_message'
IsBotMessage(event) == event.bot_id \/ event.subtype = "bot_message"

\* The broadcast branch of /slack/events.
IsBroadcastTrigger(event) ==
    /\ event.channel = "broadcast"
    /\ ~event.bot_id
    /\ event.subtype # "bot_message"
    /\ event.thread_ts = Null

\* A reply written by a human in a thread, with text.
AgentReplies ==
    {e \in Events : ~e.bot_id /\ e.subtype = "none" /\ e.thread_ts # Null
                    /\ e.text # ""}

\* A new request is served by the lowest free slot.
FreeSlot(h) == IsIdle(h) /\ \A g \in Slots : g < h => ~IsIdle(g)

Init ==
    /\ redis = [session |-> [s \in Sessions |-> Null],
                thread |-> [t \in Threads |-> Null],
                contact |-> [p \in Phones |-> Null],
                roles |-> {},
                assign |-> [k \in AssignKeys |-> {}]]
    /\ pendingTimers = [s \in Sessions |-> Null]
    /\ timers = <<>>
    /\ slackThreads = <<>>
    /\ handlers = [h \in Slots |-> Idle]
    /\ SESSIONS = <<>>
    /\ views = {}

StartsInFlightBeforePost ==
    Cardinality({h \in Slots : /\ handlers[h].kind = "start"
                               /\ handlers[h].pc \in {"get_contact", "get_assignees", "post"}})

\* The parameters of a /start: SENDER_PHONE_NUMBER, PROFILE_NAME, USER.school
\* and USER.intent, "" when the platform sent none. A tag arrives as the
\* platform wrote it, so "Academy" is a value too.
ProfileNames == {"", "Pat"}
StartSchools == {"", "academy", "daycare", "Academy"}
StartIntents == {"", "registration", "payment"}
StartParams ==
    [phone : {""} \cup Phones, profile : ProfileNames,
     school : StartSchools, intent : StartIntents]
NoParams == [phone |-> "", profile |-> "", school |-> "", intent |-> ""]

\* profileName after the contact lookup, with the profile name first.
ResolveProfileName_ProfileFirst(profile, savedContact) ==
    IF profile # "" THEN profile
    ELSE IF savedContact # Null THEN ContactParse(Val(savedContact)).name
    ELSE "Unknown"

\* profileName after the contact lookup: params.PROFILE_NAME || 'Unknown',
\* replaced by the saved contact's name when a contact is stored.
ResolveProfileName(profile, savedContact) ==
    IF savedContact # Null THEN ContactParse(Val(savedContact)).name
    ELSE IF profile = "" THEN "Unknown" ELSE profile

\* getAssignees answering with every responder of the category.
getAssignees_CategoryOnly(r, school, intent) ==
    IF school = "" /\ intent = "" THEN {}
    ELSE UNION {r.assign[k] : k \in {k \in AssignKeys : k[1] = school}}

\* getAssignees: the members of assign:{school}:{intent}, read with the
\* tags as given, and nothing when a tag is missing.
getAssignees(r, school, intent) ==
    IF school = "" /\ intent = "" THEN {}
    ELSE IF school # "" /\ intent # "" THEN sMembersAssign(r, school, intent)
    ELSE {}

\* The thread-opening message without the mention line.
StartMessage_NoMentions(sessionId, params, work) ==
    [session_id |-> sessionId, name |-> work.name, mentions |-> {},
     save_button |-> params.phone # "" /\ ~work.saved]

\* The thread-opening message: the header with the customer's name, a
\* mention line when assignees were found, the Save Contact button when the
\* phone is known and no contact is saved.
StartMessage(sessionId, params, work) ==
    [session_id |-> sessionId, name |-> work.name, mentions |-> work.assignees,
     save_button |-> params.phone # "" /\ ~work.saved]

\* The handler after the contact lookup: getAssignees reads redis only when
\* both tags are present, otherwise the handler goes on to chat.postMessage.
StartAfterContact(hd, savedContact) ==
    [hd EXCEPT !.pc = IF Val(hd.in).school # "" /\ Val(hd.in).intent # ""
                      THEN "get_assignees" ELSE "post",
               !.work = Some([name |-> ResolveProfileName(Val(hd.in).profile, savedContact),
                              saved |-> savedContact # Null,
                              assignees |-> {},
                              message |-> Null])]

\* POST /start arrives: the handler reads the parameters and, when a phone
\* number came with them, issues redis.get(`contact:${phoneNumber}`).
StartRequest(h, sessionId, params) ==
    /\ FreeSlot(h)
    /\ Len(slackThreads) + StartsInFlightBeforePost < MaxStarts
    /\ LET hd == [Idle EXCEPT !.kind = "start", !.pc = "get_contact",
                              !.sid = Some(sessionId), !.in = Some(params)]
       IN handlers' = [handlers EXCEPT ![h] =
                          IF params.phone # "" THEN hd
                          ELSE StartAfterContact(hd, Null)]
    /\ UNCHANGED <<redis, pendingTimers, timers, slackThreads, SESSIONS, views>>

\* redis.get(`contact:${phoneNumber}`) answered.
StartGetContact(h) ==
    /\ handlers[h].kind = "start" /\ handlers[h].pc = "get_contact"
    /\ handlers' = [handlers EXCEPT ![h] =
                       StartAfterContact(handlers[h],
                                         redis.contact[Val(handlers[h].in).phone])]
    /\ UNCHANGED <<redis, pendingTimers, timers, slackThreads, SESSIONS, views>>

\* getAssignees answered: the handler builds the message and issues
\* chat.postMessage.
StartGetAssignees(h) ==
    /\ handlers[h].kind = "start" /\ handlers[h].pc = "get_assignees"
    /\ handlers' = [handlers EXCEPT ![h].pc = "post",
                       ![h].work = Some([Val(@) EXCEPT !.assignees =
                           getAssignees(redis, Val(handlers[h].in).school,
                                        Val(handlers[h].in).intent)])]
    /\ UNCHANGED <<redis, pendingTimers, timers, slackThreads, SESSIONS, views>>

\* chat.postMessage succeeded: Slack created the message and returned its
\* ts; saveSession builds the session and issues the first redis.set.
StartPost(h) ==
    /\ handlers[h].kind = "start" /\ handlers[h].pc = "post"
    /\ slackThreads' = Append(slackThreads, Val(handlers[h].sid))
    /\ handlers' = [handlers EXCEPT ![h].pc = "save_session",
                                    ![h].ts = Some(Len(slackThreads) + 1),
                                    ![h].work = Some([Val(@) EXCEPT !.message =
                                        Some(StartMessage(Val(handlers[h].sid),
                                                          Val(handlers[h].in),
                                                          Val(handlers[h].work)))]),
                                    ![h].session = Some(NewSessionObject(
                                        Val(handlers[h].sid), Len(slackThreads) + 1,
                                        Val(handlers[h].work).name))]
    /\ UNCHANGED <<redis, pendingTimers, timers, SESSIONS, views>>

\* chat.postMessage failed or answered ok:false: catch, HTTP 500.
StartPostFail(h) ==
    /\ handlers[h].kind = "start" /\ handlers[h].pc = "post"
    /\ handlers' = [handlers EXCEPT ![h].pc = "responded",
                                    ![h].res = Some(ResError),
                                    ![h].caught = TRUE]
    /\ UNCHANGED <<redis, pendingTimers, timers, slackThreads, SESSIONS, views>>

\* saveSession: redis.set(`session:${sessionId}`, ...)
StartSetSession(h) ==
    /\ handlers[h].kind = "start" /\ handlers[h].pc = "save_session"
    /\ redis' = SetSessionKey(redis, Val(handlers[h].sid), Val(handlers[h].session))
    /\ handlers' = [handlers EXCEPT ![h].pc = "save_thread"]
    /\ UNCHANGED <<pendingTimers, timers, slackThreads, SESSIONS, views>>

\* saveSession: redis.set(`thread:${threadTs}`, sessionId)
StartSetThread(h) ==
    /\ handlers[h].kind = "start" /\ handlers[h].pc = "save_thread"
    /\ redis' = SetThreadKey(redis, Val(handlers[h].ts), Val(handlers[h].sid))
    /\ handlers' = [handlers EXCEPT ![h].pc = "schedule"]
    /\ UNCHANGED <<pendingTimers, timers, slackThreads, SESSIONS, views>>

\* saveSession returned: scheduleAutoResponses(sessionId), HTTP 200.
StartSchedule(h) ==
    /\ handlers[h].kind = "start" /\ handlers[h].pc = "schedule"
    /\ LET r == scheduleAutoResponses(pendingTimers, timers, Val(handlers[h].sid))
       IN /\ pendingTimers' = r.pendingTimers
          /\ timers' = r.timers
    /\ handlers' = [handlers EXCEPT ![h].pc = "responded",
                                    ![h].res = Some(ResSuccess)]
    /\ UNCHANGED <<redis, slackThreads, SESSIONS, views>>

\* The response a /start or /inbound handler wrote reaches the AI platform;
\* the request is over.
ResponseDelivered(h) ==
    /\ handlers[h].kind \in {"start", "inbound"}
    /\ handlers[h].pc = "responded"
    /\ handlers' = [handlers EXCEPT ![h] = Idle]
    /\ UNCHANGED <<redis, pendingTimers, timers, slackThreads, SESSIONS, views>>

\* ---- POST /inbound (customer message) -------------------------------

\* The request arrives and getSession issues redis.get.
InboundRequest(h, sessionId) ==
    /\ FreeSlot(h)
    /\ handlers' = [handlers EXCEPT ![h] =
                       [Idle EXCEPT !.kind = "inbound", !.pc = "get_session",
                                    !.sid = Some(sessionId)]]
    /\ UNCHANGED <<redis, pendingTimers, timers, slackThreads, SESSIONS, views>>

\* /inbound without its if (!session) branch: reading session.thread_ts of
\* null throws into the catch.
InboundAfterLookup_NoCheck(hd, session) ==
    IF session = Null
    THEN [hd EXCEPT !.pc = "responded", !.res = Some(ResError), !.caught = TRUE]
    ELSE [hd EXCEPT !.pc = "post", !.session = session,
                    !.calls = Append(@, ThreadPost(Val(session).thread_ts,
                                                   "customerMessage"))]

\* /inbound after getSession answered: no session -> HTTP 200 'warning' and
\* return; otherwise the Slack message is built and chat.postMessage issued.
InboundAfterLookup(hd, session) ==
    IF session = Null
    THEN [hd EXCEPT !.pc = "responded", !.res = Some(ResWarning)]
    ELSE [hd EXCEPT !.pc = "post", !.session = session,
                    !.calls = Append(@, ThreadPost(Val(session).thread_ts,
                                                   "customerMessage"))]

\* getSession answered.
InboundGetSession(h) ==
    /\ handlers[h].kind = "inbound" /\ handlers[h].pc = "get_session"
    /\ handlers' = [handlers EXCEPT ![h] =
           InboundAfterLookup(@, getSession(redis, Val(handlers[h].sid)))]
    /\ UNCHANGED <<redis, pendingTimers, timers, slackThreads, SESSIONS, views>>

\* chat.postMessage into session.thread_ts succeeded: HTTP 200 'success'.
InboundPost(h) ==
    /\ handlers[h].kind = "inbound" /\ handlers[h].pc = "post"
    /\ handlers' = [handlers EXCEPT ![h].pc = "responded",
                                    ![h].res = Some(ResSuccess)]
    /\ UNCHANGED <<redis, pendingTimers, timers, slackThreads, SESSIONS, views>>

\* chat.postMessage failed: catch, HTTP 500.
InboundPostFail(h) ==
    /\ handlers[h].kind = "inbound" /\ handlers[h].pc = "post"
    /\ handlers' = [handlers EXCEPT ![h].pc = "responded",
                                    ![h].res = Some(ResError),
                                    ![h].caught = TRUE]
    /\ UNCHANGED <<redis, pendingTimers, timers, slackThreads, SESSIONS, views>>

\* ---- Slack message event: POST /slack/events, handleMessage ----------

\* A message event arrives.  /slack/events acknowledges it and dispatches:
\* a human top-level message in the broadcast channel starts
\* handleBroadcastMessage (getAllRoles is issued); everything else goes to
\* handleMessage, which returns at once for a bot message and for a message
\* that is no thread reply, and otherwise issues
\* redis.get(`thread:${threadTs}`) of getSessionByThread.
MessageEvent(h, event) ==
    /\ FreeSlot(h)
    /\ event \in Events \cup FileReplies
    /\ event.thread_ts # Null => Val(event.thread_ts) \in 1..Len(slackThreads)
    /\ handlers' = [handlers EXCEPT ![h] =
           IF IsBroadcastTrigger(event)
           THEN [Idle EXCEPT !.kind = "broadcast", !.pc = "get_roles",
                             !.event = Some(event)]
           ELSE IF IsBotMessage(event) \/ event.thread_ts = Null
           THEN [Idle EXCEPT !.kind = "message", !.pc = "return",
                             !.event = Some(event)]
           ELSE [Idle EXCEPT !.kind = "message", !.pc = "get_thread",
                             !.ts = event.thread_ts, !.event = Some(event)]]
    /\ UNCHANGED <<redis, pendingTimers, timers, slackThreads, SESSIONS, views>>

\* getSessionByThread: the reverse pointer is read.
MessageGetThread(h) ==
    /\ handlers[h].kind = "message" /\ handlers[h].pc = "get_thread"
    /\ LET sessionId == redis.thread[Val(handlers[h].ts)]
       IN handlers' = IF sessionId = Null
                      THEN [handlers EXCEPT ![h].pc = "return"]
                      ELSE [handlers EXCEPT ![h].pc = "get_session",
                                            ![h].sid = sessionId]
    /\ UNCHANGED <<redis, pendingTimers, timers, slackThreads, SESSIONS, views>>

\* handleMessage forwarding the reply twice.
ForwardCalls_Twice(session, event) ==
    <<Outbound(session.session_id, event.text),
      Outbound(session.session_id, event.text)>>

\* The calls handleMessage issues for a text reply: one outbound post to
\* session.session_id carrying event.text.
ForwardCalls(session, event) ==
    <<Outbound(session.session_id, event.text)>>

\* A notice posted into the thread about file number index of the message.
FileNotice(threadTs, text, index) ==
    [api |-> "thread_post", sid |-> Null, ts |-> Some(threadTs), text |-> text,
     file |-> index]

\* POST {AI}/live-agent/outbound/{sessionId} {message_type: fileType,
\* [fileType]: {url, caption}} for file number index.
OutboundMedia(sessionId, fileType, caption, index) ==
    [api |-> "outbound", sid |-> Some(sessionId), ts |-> Null, text |-> caption,
     message_type |-> fileType, file |-> index]

\* handleFileUpload is called for file number index: an unsupported type
\* is reported into the thread, any other file is downloaded from Slack.
\* work keeps the number of the file in hand.
FileStart(hd, index) ==
    LET work == [file |-> index]
    IN IF Forwardable(FileType(Val(hd.event).files[index]))
       THEN [hd EXCEPT !.pc = "file_download", !.work = Some(work)]
       ELSE [hd EXCEPT !.pc = "file_notice", !.work = Some(work),
                       !.calls = Append(@, FileNotice(Val(hd.ts),
                                                      "unsupportedFileType", index))]

\* handleFileUpload returned: the loop of handleMessage goes on with the
\* next file, or handleMessage returns.
FileNext(hd) ==
    LET index == Val(hd.work).file
    IN IF index < Len(Val(hd.event).files) THEN FileStart(hd, index + 1)
       ELSE [hd EXCEPT !.pc = "return"]

\* handleMessage going on without a session record.
MessageAfterLookup_NoCheck(hd, session) ==
    [hd EXCEPT !.pc = "send",
               !.session = Some(NewSessionObject(Val(hd.sid), Val(hd.ts), "")),
               !.calls = @ \o ForwardCalls(NewSessionObject(Val(hd.sid), Val(hd.ts), ""),
                                           Val(hd.event))]

\* handleMessage after getSessionByThread answered: if (!session) return;
\* (cancelAutoResponses runs here, see MessageGetSession); with files the
\* loop over event.files starts; if (!message) return; otherwise the
\* outbound post is issued.
MessageAfterLookup(hd, session) ==
    IF session = Null THEN [hd EXCEPT !.pc = "return"]
    ELSE IF Val(hd.event).files # <<>>
    THEN FileStart([hd EXCEPT !.session = session], 1)
    ELSE IF Val(hd.event).text = ""
    THEN [hd EXCEPT !.pc = "return", !.session = session]
    ELSE [hd EXCEPT !.pc = "send", !.session = session,
                    !.calls = @ \o ForwardCalls(Val(session), Val(hd.event))]

\* getSession answered: no session -> return; otherwise
\* cancelAutoResponses(session.session_id), then the text is forwarded.
MessageGetSession(h) ==
    /\ handlers[h].kind = "message" /\ handlers[h].pc = "get_session"
    /\ LET session == getSession(redis, Val(handlers[h].sid))
           after == MessageAfterLookup(handlers[h], session)
       IN IF after.session = Null
          THEN /\ handlers' = [handlers EXCEPT ![h] = after]
               /\ UNCHANGED <<pendingTimers, timers>>
          ELSE LET c == cancelAutoResponses(pendingTimers, timers,
                                            Val(after.session).session_id)
               IN /\ pendingTimers' = c.pendingTimers
                  /\ timers' = c.timers
                  /\ handlers' = IF c.threw
                                 THEN [handlers EXCEPT ![h].pc = "return",
                                                       ![h].caught = TRUE]
                                 ELSE [handlers EXCEPT ![h] = after]
    /\ UNCHANGED <<redis, slackThreads, SESSIONS, views>>

\* The outbound post to the AI platform succeeded; handleMessage returns.
MessageSend(h) ==
    /\ handlers[h].kind = "message" /\ handlers[h].pc = "send"
    /\ handlers' = [handlers EXCEPT ![h].pc = "return"]
    /\ UNCHANGED <<redis, pendingTimers, timers, slackThreads, SESSIONS, views>>

\* The outbound post failed: the rejection leaves handleMessage and reaches
\* the catch of /slack/events, which logs it.
MessageSendFail(h) ==
    /\ handlers[h].kind = "message" /\ handlers[h].pc = "send"
    /\ handlers' = [handlers EXCEPT ![h].pc = "return", ![h].caught = TRUE]
    /\ UNCHANGED <<redis, pendingTimers, timers, slackThreads, SESSIONS, views>>

\* handleFileUpload: the download from Slack succeeded; the upload to the
\* media host starts.
FileDownloaded(h) ==
    /\ handlers[h].kind = "message" /\ handlers[h].pc = "file_download"
    /\ handlers' = [handlers EXCEPT ![h].pc = "file_upload"]
    /\ UNCHANGED <<redis, pendingTimers, timers, slackThreads, SESSIONS, views>>

\* handleFileUpload: the media host returned the public URL; the file is
\* sent to the AI platform with the text of the message as its caption.
FileUploaded(h) ==
    /\ handlers[h].kind = "message" /\ handlers[h].pc = "file_upload"
    /\ LET index == Val(handlers[h].work).file
           event == Val(handlers[h].event)
       IN handlers' = [handlers EXCEPT
              ![h].pc = "file_send",
              ![h].calls = Append(@, OutboundMedia(
                               Val(handlers[h].session).session_id,
                               FileType(event.files[index]), event.text, index))]
    /\ UNCHANGED <<redis, pendingTimers, timers, slackThreads, SESSIONS, views>>

\* handleFileUpload: the outbound post succeeded; the function returns.
FileSent(h) ==
    /\ handlers[h].kind = "message" /\ handlers[h].pc = "file_send"
    /\ handlers' = [handlers EXCEPT ![h] = FileNext(@)]
    /\ UNCHANGED <<redis, pendingTimers, timers, slackThreads, SESSIONS, views>>

\* handleFileUpload: the notice about the file (unsupported type, or the
\* failure notice of the catch) was posted; the function returns.
FileNoticed(h) ==
    /\ handlers[h].kind = "message"
    /\ handlers[h].pc \in {"file_notice", "file_failed"}
    /\ handlers' = [handlers EXCEPT ![h] = FileNext(@)]
    /\ UNCHANGED <<redis, pendingTimers, timers, slackThreads, SESSIONS, views>>

\* handleFileUpload: an awaited call inside the try failed (the post of the
\* unsupported-type notice, the download, the upload or the outbound post):
\* the catch posts the failedToSendFile notice.
FileStepFail(h) ==
    /\ handlers[h].kind = "message"
    /\ handlers[h].pc \in {"file_notice", "file_download", "file_upload", "file_send"}
    /\ handlers' = [handlers EXCEPT
           ![h].pc = "file_failed",
           ![h].calls = Append(@, FileNotice(Val(handlers[h].ts), "failedToSendFile",
                                            Val(handlers[h].work).file))]
    /\ UNCHANGED <<redis, pendingTimers, timers, slackThreads, SESSIONS, views>>

\* handleFileUpload: the post of the failure notice failed; it is awaited
\* inside the catch, so the rejection leaves handleFileUpload and the loop
\* of handleMessage and reaches the catch of /slack/events, which logs it.
FileAbort(h) ==
    /\ handlers[h].kind = "message" /\ handlers[h].pc = "file_failed"
    /\ handlers' = [handlers EXCEPT ![h].pc = "return", ![h].caught = TRUE]
    /\ UNCHANGED <<redis, pendingTimers, timers, slackThreads, SESSIONS, views>>

\* handleBroadcastMessage: getAllRoles answered.  With no role registered
\* the "no roles" notice is posted in the broadcast channel, otherwise the
\* role picker with the Send button.
BroadcastGetRoles(h) ==
    /\ handlers[h].kind = "broadcast" /\ handlers[h].pc = "get_roles"
    /\ handlers' = [handlers EXCEPT
           ![h].pc = "post",
           ![h].calls = Append(@, BroadcastPost(IF redis.roles = {} THEN "homeNoRoles"
                                                ELSE "broadcastSelectRoles"))]
    /\ UNCHANGED <<redis, pendingTimers, timers, slackThreads, SESSIONS, views>>

\* The post of handleBroadcastMessage succeeded.
BroadcastPosted(h) ==
    /\ handlers[h].kind = "broadcast" /\ handlers[h].pc = "post"
    /\ handlers' = [handlers EXCEPT ![h].pc = "return"]
    /\ UNCHANGED <<redis, pendingTimers, timers, slackThreads, SESSIONS, views>>

\* The post of handleBroadcastMessage failed: caught and logged there.
BroadcastPostFail(h) ==
    /\ handlers[h].kind = "broadcast" /\ handlers[h].pc = "post"
    /\ handlers' = [handlers EXCEPT ![h].pc = "return", ![h].caught = TRUE]
    /\ UNCHANGED <<redis, pendingTimers, timers, slackThreads, SESSIONS, views>>

\* await handleMessage(event) / await handleBroadcastMessage(event) resumes
\* in /slack/events, which returns.
EventsReturn(h) ==
    /\ handlers[h].kind \in {"message", "broadcast"}
    /\ handlers[h].pc = "return"
    /\ handlers' = [handlers EXCEPT ![h] = Idle]
    /\ UNCHANGED <<redis, pendingTimers, timers, slackThreads, SESSIONS, views>>

\* ---- close_ticket button: POST /slack/interactions -------------------

\* The button of thread-opening message messageTs is clicked.
CloseClick(h, messageTs) ==
    /\ FreeSlot(h)
    /\ messageTs \in 1..Len(slackThreads)
    /\ handlers' = [handlers EXCEPT ![h] =
                       [Idle EXCEPT !.kind = "close", !.pc = "get_thread",
                                    !.ts = Some(messageTs)]]
    /\ UNCHANGED <<redis, pendingTimers, timers, slackThreads, SESSIONS, views>>

CloseGetThread(h) ==
    /\ handlers[h].kind = "close" /\ handlers[h].pc = "get_thread"
    /\ LET sessionId == redis.thread[Val(handlers[h].ts)]
       IN handlers' = IF sessionId = Null
                      THEN [handlers EXCEPT ![h] = Idle]
                      ELSE [handlers EXCEPT ![h].pc = "get_session",
                                            ![h].sid = sessionId]
    /\ UNCHANGED <<redis, pendingTimers, timers, slackThreads, SESSIONS, views>>

\* The close handler trusting the reverse pointer without a session record.
CloseAfterLookup_NoCheck(hd, session) ==
    [hd EXCEPT !.pc = "disconnect",
               !.session = Some(NewSessionObject(Val(hd.sid), Val(hd.ts), "")),
               !.calls = Append(@, Disconnect(Val(hd.sid)))]

\* The close handler after getSessionByThread answered: if (!session)
\* return; otherwise the disconnect call to the AI platform is issued.
CloseAfterLookup(hd, session) ==
    IF session = Null THEN Idle
    ELSE [hd EXCEPT !.pc = "disconnect",
                    !.session = session,
                    !.calls = Append(@, Disconnect(Val(session).session_id))]

\* getSessionByThread: the forward record is read.
CloseGetSession(h) ==
    /\ handlers[h].kind = "close" /\ handlers[h].pc = "get_session"
    /\ handlers' = [handlers EXCEPT ![h] =
           CloseAfterLookup(@, getSession(redis, Val(handlers[h].sid)))]
    /\ UNCHANGED <<redis, pendingTimers, timers, slackThreads, SESSIONS, views>>

\* disconnect succeeded; the closure notice is posted.
CloseDisconnect(h) ==
    /\ handlers[h].kind = "close" /\ handlers[h].pc = "disconnect"
    /\ handlers' = [handlers EXCEPT ![h].pc = "notice",
                                    ![h].calls = Append(@, ThreadPost(
                                        Val(handlers[h].ts), "ticketClosed"))]
    /\ UNCHANGED <<redis, pendingTimers, timers, slackThreads, SESSIONS, views>>

\* closure notice posted; chat.update of the original message is issued.
CloseNotice(h) ==
    /\ handlers[h].kind = "close" /\ handlers[h].pc = "notice"
    /\ handlers' = [handlers EXCEPT ![h].pc = "update",
                                    ![h].calls = Append(@, ChatUpdate(
                                        Val(handlers[h].ts)))]
    /\ UNCHANGED <<redis, pendingTimers, timers, slackThreads, SESSIONS, views>>

\* chat.update settled; deleteSession(session.session_id, messageTs) starts:
\* cancelAutoResponses runs and the first redis.del is issued.
CloseUpdate(h) ==
    /\ handlers[h].kind = "close" /\ handlers[h].pc = "update"
    /\ LET c == cancelAutoResponses(pendingTimers, timers,
                                    Val(handlers[h].session).session_id)
       IN /\ pendingTimers' = c.pendingTimers
          /\ timers' = c.timers
          /\ handlers' = IF c.threw
                         THEN [handlers EXCEPT ![h] = Idle]
                         ELSE [handlers EXCEPT ![h].pc = "del_session"]
    /\ UNCHANGED <<redis, slackThreads, SESSIONS, views>>

\* A catch block that cleans up after a failed call: the session is deleted
\* although the Close did not go through.
CloseFail_Cleans(h) ==
    /\ handlers[h].kind = "close"
    /\ handlers[h].pc \in {"disconnect", "notice", "update"}
    /\ LET s == Val(handlers[h].session).session_id
           c == cancelAutoResponses(pendingTimers, timers, s)
       IN /\ redis' = DelThreadKey(DelSessionKey(redis, s), Val(handlers[h].ts))
          /\ pendingTimers' = c.pendingTimers
          /\ timers' = c.timers
    /\ handlers' = [handlers EXCEPT ![h] = Idle]
    /\ UNCHANGED <<slackThreads, SESSIONS, views>>

\* One of the three collaborator calls of the close handler failed: catch.
CloseFail(h) ==
    /\ handlers[h].kind = "close"
    /\ handlers[h].pc \in {"disconnect", "notice", "update"}
    /\ handlers' = [handlers EXCEPT ![h] = Idle]
    /\ UNCHANGED <<redis, pendingTimers, timers, slackThreads, SESSIONS, views>>

\* deleteSession: redis.del(`session:${sessionId}`)
CloseDelSession(h) ==
    /\ handlers[h].kind = "close" /\ handlers[h].pc = "del_session"
    /\ redis' = DelSessionKey(redis, Val(handlers[h].session).session_id)
    /\ handlers' = [handlers EXCEPT ![h].pc = "del_thread"]
    /\ UNCHANGED <<pendingTimers, timers, slackThreads, SESSIONS, views>>

\* deleteSession: redis.del(`thread:${threadTs}`); the handler ends.
CloseDelThread(h) ==
    /\ handlers[h].kind = "close" /\ handlers[h].pc = "del_thread"
    /\ redis' = DelThreadKey(redis, Val(handlers[h].ts))
    /\ handlers' = [handlers EXCEPT ![h] = Idle]
    /\ UNCHANGED <<pendingTimers, timers, slackThreads, SESSIONS, views>>

\* ---- Timers: the clock, firing, sendBusyMessage ----------------------

PendingIds == {i \in 1..Len(timers) : timers[i].status = "pending"}

\* One TickMs passes.  A timer that is due runs before the clock moves on.
Tick ==
    /\ PendingIds # {}
    /\ \A i \in PendingIds : timers[i].remaining > 0
    /\ timers' = [i \in 1..Len(timers) |->
                     IF timers[i].status = "pending"
                     THEN [timers[i] EXCEPT !.remaining =
                              IF @ > TickMs THEN @ - TickMs ELSE 0]
                     ELSE timers[i]]
    /\ UNCHANGED <<redis, pendingTimers, slackThreads, handlers, SESSIONS, views>>

\* The delay of handle i elapsed: the callback calls sendBusyMessage, which
\* issues getSession.
TimerFire(i) ==
    /\ i \in PendingIds
    /\ timers[i].remaining = 0
    /\ timers' = [timers EXCEPT ![i].status = "get_session"]
    /\ UNCHANGED <<redis, pendingTimers, slackThreads, handlers, SESSIONS, views>>

\* sendBusyMessage going on without its if (!session) return.
BusyAfterLookup_NoCheck(tmr, session) ==
    [tmr EXCEPT !.status = "send", !.session = session]

\* sendBusyMessage after getSession answered: if (!session) return;
\* otherwise the outbound post to the AI platform is issued.
BusyAfterLookup(tmr, session) ==
    IF session = Null THEN [tmr EXCEPT !.status = "done"]
    ELSE [tmr EXCEPT !.status = "send", !.session = session]

\* sendBusyMessage: getSession answered.
BusyGetSession(i) ==
    /\ i \in 1..Len(timers)
    /\ timers[i].status = "get_session"
    /\ timers' = [timers EXCEPT ![i] =
                     BusyAfterLookup(@, getSession(redis, timers[i].sid))]
    /\ UNCHANGED <<redis, pendingTimers, slackThreads, handlers, SESSIONS, views>>

\* The busy message reached the customer; the Slack notice is issued.
BusySend(i) ==
    /\ i \in 1..Len(timers)
    /\ timers[i].status = "send"
    /\ timers' = [timers EXCEPT ![i].status = "notify",
                                ![i].sentWhatsApp = TRUE]
    /\ UNCHANGED <<redis, pendingTimers, slackThreads, handlers, SESSIONS, views>>

\* sendBusyMessage expiring the session once both of its posts are out.
BusyNotify_Expires(i) ==
    /\ i \in 1..Len(timers)
    /\ timers[i].status = "notify"
    /\ timers' = [timers EXCEPT ![i].status = "done",
                                ![i].session = Null,
                                ![i].sentSlack = TRUE]
    /\ redis' = DelSessionKey(redis, timers[i].sid)
    /\ UNCHANGED <<pendingTimers, slackThreads, handlers, SESSIONS, views>>

\* The busy notice was posted into session.thread_ts.
BusyNotify(i) ==
    /\ i \in 1..Len(timers)
    /\ timers[i].status = "notify"
    /\ timers' = [timers EXCEPT ![i].status = "done",
                                ![i].session = Null,
                                ![i].sentSlack = TRUE]
    /\ UNCHANGED <<redis, pendingTimers, slackThreads, handlers, SESSIONS, views>>

\* sendBusyMessage whose catch also cancels the timers of the session.
BusyFail_CancelsPair(i) ==
    /\ i \in 1..Len(timers)
    /\ timers[i].status \in {"send", "notify"}
    /\ LET c == cancelAutoResponses(pendingTimers,
                   [timers EXCEPT ![i].status = "done", ![i].session = Null],
                   timers[i].sid)
       IN /\ timers' = c.timers
          /\ pendingTimers' = c.pendingTimers
    /\ UNCHANGED <<redis, slackThreads, handlers, SESSIONS, views>>

\* One of the two posts of sendBusyMessage failed: caught and logged.
BusyFail(i) ==
    /\ i \in 1..Len(timers)
    /\ timers[i].status \in {"send", "notify"}
    /\ timers' = [timers EXCEPT ![i].status = "done", ![i].session = Null]
    /\ UNCHANGED <<redis, pendingTimers, slackThreads, handlers, SESSIONS, views>>

TimerIds == 1..(2 * MaxStarts)

\* ---------------------------------------------------------------------
\* Contacts and roles (/slack/interactions)
\* ---------------------------------------------------------------------

\* views.open / views.publish
ViewsOpen(text) ==
    [api |-> "views_open", sid |-> Null, ts |-> Null, text |-> text]
ViewsPublish ==
    [api |-> "views_publish", sid |-> Null, ts |-> Null, text |-> "home"]

\* What an agent can type as a role name: the handler trims and lower-cases.
RoleInputs == {"", "vip", " VIP ", "academy"}
TrimLower(text) == ToLower(Trim(text))

\* "Save Contact" clicked on the opening message of thread ts; the button's
\* value carries the phone number the Start was given. The handler issues
\* redis.get(`contact:${data.phone}`).
SaveContactClick(h, ts, phone) ==
    /\ FreeSlot(h)
    /\ ts \in 1..Len(slackThreads)
    /\ handlers' = [handlers EXCEPT ![h] =
                       [Idle EXCEPT !.kind = "save_click", !.pc = "get_contact",
                                    !.ts = Some(ts),
                                    !.in = Some([phone |-> phone])]]
    /\ UNCHANGED <<redis, pendingTimers, timers, slackThreads, SESSIONS, views>>

\* The contact lookup answered: the modal opens with the stored name as the
\* default when a contact exists.
SaveContactOpen(h) ==
    /\ handlers[h].kind = "save_click" /\ handlers[h].pc = "get_contact"
    /\ LET existing == redis.contact[Val(handlers[h].in).phone]
       IN handlers' = [handlers EXCEPT
              ![h].pc = "slack",
              ![h].calls = Append(@, ViewsOpen(
                  IF existing # Null THEN ContactParse(Val(existing)).name
                  ELSE "profile"))]
    /\ UNCHANGED <<redis, pendingTimers, timers, slackThreads, SESSIONS, views>>

\* The save_contact_modal submission: name is what the agent typed, phone
\* and ts come from the modal's metadata. The handler issues the redis.set.
SaveContactSubmit(h, ts, phone, name) ==
    /\ FreeSlot(h)
    /\ ts \in 1..Len(slackThreads)
    /\ handlers' = [handlers EXCEPT ![h] =
                       [Idle EXCEPT !.kind = "save_contact", !.pc = "set_contact",
                                    !.ts = Some(ts),
                                    !.in = Some([phone |-> phone, name |-> name])]]
    /\ UNCHANGED <<redis, pendingTimers, timers, slackThreads, SESSIONS, views>>

\* redis.set(`contact:${phone}`, { name, phone, saved_at }) done; the
\* confirmation is posted in the thread.
SaveContactSet(h) ==
    /\ handlers[h].kind = "save_contact" /\ handlers[h].pc = "set_contact"
    /\ LET in == Val(handlers[h].in)
       IN redis' = SetContactKey(redis, in.phone, NewContactObject(in.name, in.phone))
    /\ handlers' = [handlers EXCEPT
           ![h].pc = "confirm",
           ![h].calls = Append(@, ThreadPost(Val(handlers[h].ts), "saveContactSaved"))]
    /\ UNCHANGED <<pendingTimers, timers, slackThreads, SESSIONS, views>>

\* The confirmation was posted; chat.update removes the Save Contact button.
SaveContactConfirmed(h) ==
    /\ handlers[h].kind = "save_contact" /\ handlers[h].pc = "confirm"
    /\ handlers' = [handlers EXCEPT
           ![h].pc = "slack",
           ![h].calls = Append(@, ChatUpdate(Val(handlers[h].ts)))]
    /\ UNCHANGED <<redis, pendingTimers, timers, slackThreads, SESSIONS, views>>

\* The add_role_modal submission: a non-empty name is added to the roles
\* set, then the Home tab is refreshed.
AddRoleSubmit(h, text) ==
    /\ FreeSlot(h)
    /\ handlers' = [handlers EXCEPT ![h] =
                       IF TrimLower(text) # ""
                       THEN [Idle EXCEPT !.kind = "add_role", !.pc = "sadd",
                                         !.in = Some([role |-> TrimLower(text)])]
                       ELSE [Idle EXCEPT !.kind = "add_role", !.pc = "slack",
                                         !.in = Some([role |-> ""]),
                                         !.calls = <<ViewsPublish>>]]
    /\ UNCHANGED <<redis, pendingTimers, timers, slackThreads, SESSIONS, views>>

\* redis.sAdd('roles', roleName)
AddRoleSAdd(h) ==
    /\ handlers[h].kind = "add_role" /\ handlers[h].pc = "sadd"
    /\ redis' = sAddRoles(redis, Val(handlers[h].in).role)
    /\ handlers' = [handlers EXCEPT ![h].pc = "slack",
                                    ![h].calls = Append(@, ViewsPublish)]
    /\ UNCHANGED <<pendingTimers, timers, slackThreads, SESSIONS, views>>

\* The edit_contact_roles_modal submission: roles are the options the agent
\* selected. The handler issues redis.get(`contact:${phone}`).
SetRolesSubmit(h, phone, roles) ==
    /\ FreeSlot(h)
    /\ handlers' = [handlers EXCEPT ![h] =
                       [Idle EXCEPT !.kind = "set_roles", !.pc = "get_contact",
                                    !.in = Some([phone |-> phone, roles |-> roles])]]
    /\ UNCHANGED <<redis, pendingTimers, timers, slackThreads, SESSIONS, views>>

\* The lookup of the edit_contact_roles_modal submission, writing a contact
\* for a phone that has none.
SetRolesAfterLookup_Creates(hd, contactData) ==
    [hd EXCEPT !.pc = "set_contact",
               !.work = Some(IF contactData = Null
                             THEN [name |-> "Unknown", phone |-> Val(hd.in).phone,
                                   roles |-> Some(Val(hd.in).roles)]
                             ELSE [ContactParse(Val(contactData)) EXCEPT
                                       !.roles = Some(Val(hd.in).roles)])]

\* The lookup of the edit_contact_roles_modal submission: only a stored
\* contact is rewritten, with contact.roles = roles; otherwise the handler
\* goes on to refresh the Home tab.
SetRolesAfterLookup(hd, contactData) ==
    IF contactData = Null
    THEN [hd EXCEPT !.pc = "slack", !.calls = Append(@, ViewsPublish)]
    ELSE [hd EXCEPT !.pc = "set_contact",
                    !.work = Some([ContactParse(Val(contactData)) EXCEPT
                                       !.roles = Some(Val(hd.in).roles)])]

SetRolesGetContact(h) ==
    /\ handlers[h].kind = "set_roles" /\ handlers[h].pc = "get_contact"
    /\ handlers' = [handlers EXCEPT ![h] =
           SetRolesAfterLookup(handlers[h], redis.contact[Val(handlers[h].in).phone])]
    /\ UNCHANGED <<redis, pendingTimers, timers, slackThreads, SESSIONS, views>>

\* redis.set(`contact:${phone}`, JSON.stringify(contact)) of the edited
\* contact, then the Home tab refresh.
SetRolesSet(h) ==
    /\ handlers[h].kind = "set_roles" /\ handlers[h].pc = "set_contact"
    /\ redis' = SetContactKey(redis, Val(handlers[h].in).phone, Val(handlers[h].work))
    /\ handlers' = [handlers EXCEPT ![h].pc = "slack",
                                    ![h].calls = Append(@, ViewsPublish)]
    /\ UNCHANGED <<pendingTimers, timers, slackThreads, SESSIONS, views>>

\* ---- edit_contact_roles button and its modal --------------------------

\* The modal Slack shows: the phone in private_metadata and the options of
\* the multi_static_select (one per role returned by getAllRoles).
RolesModal(phone, allRoles) == [phone |-> phone, options |-> allRoles]

\* An edit_contact_roles handler is between its click and its views.open.
EditRolesInFlight == {h \in Slots : handlers[h].kind = "edit_roles"}

\* "Edit Roles" clicked next to a contact on the Home tab: the handler
\* issues redis.get(`contact:${phone}`).
EditRolesClick(h, phone) ==
    /\ FreeSlot(h)
    /\ Cardinality(views) + Cardinality(EditRolesInFlight) < MaxViews
    /\ handlers' = [handlers EXCEPT ![h] =
                       [Idle EXCEPT !.kind = "edit_roles", !.pc = "get_contact",
                                    !.in = Some([phone |-> phone])]]
    /\ UNCHANGED <<redis, pendingTimers, timers, slackThreads, SESSIONS, views>>

\* if (!contactData) return; otherwise getAllRoles is issued.
EditRolesGetContact(h) ==
    /\ handlers[h].kind = "edit_roles" /\ handlers[h].pc = "get_contact"
    /\ handlers' = IF redis.contact[Val(handlers[h].in).phone] = Null
                   THEN [handlers EXCEPT ![h] = Idle]
                   ELSE [handlers EXCEPT ![h].pc = "get_roles"]
    /\ UNCHANGED <<redis, pendingTimers, timers, slackThreads, SESSIONS, views>>

\* getAllRoles answered: views.open is issued with one option per role.
EditRolesGetRoles(h) ==
    /\ handlers[h].kind = "edit_roles" /\ handlers[h].pc = "get_roles"
    /\ handlers' = [handlers EXCEPT
           ![h].pc = "open",
           ![h].work = Some(RolesModal(Val(handlers[h].in).phone, redis.roles)),
           ![h].calls = Append(@, ViewsOpen("homeEditRolesModalTitle"))]
    /\ UNCHANGED <<redis, pendingTimers, timers, slackThreads, SESSIONS, views>>

\* views.open succeeded: the modal is on the agent's screen; return.
EditRolesOpened(h) ==
    /\ handlers[h].kind = "edit_roles" /\ handlers[h].pc = "open"
    /\ views' = views \cup {Val(handlers[h].work)}
    /\ handlers' = [handlers EXCEPT ![h] = Idle]
    /\ UNCHANGED <<redis, pendingTimers, timers, slackThreads, SESSIONS>>

\* views.open failed: the catch of /slack/interactions logs it.
EditRolesOpenFail(h) ==
    /\ handlers[h].kind = "edit_roles" /\ handlers[h].pc = "open"
    /\ handlers' = [handlers EXCEPT ![h] = Idle]
    /\ UNCHANGED <<redis, pendingTimers, timers, slackThreads, SESSIONS, views>>

\* The agent presses Save in an open modal: Slack sends the
\* edit_contact_roles_modal submission with the selected options, a subset
\* of the options the modal was opened with, and the modal closes.
EditRolesSave(h, phone, roles) ==
    /\ FreeSlot(h)
    /\ \E view \in views : /\ view.phone = phone
                           /\ roles \subseteq view.options
                           /\ views' = views \ {view}
    /\ handlers' = [handlers EXCEPT ![h] =
                       [Idle EXCEPT !.kind = "set_roles", !.pc = "get_contact",
                                    !.in = Some([phone |-> phone,
                                                 roles |-> roles])]]
    /\ UNCHANGED <<redis, pendingTimers, timers, slackThreads, SESSIONS>>

\* getAllContacts after redis.keys answered: the keys still to read and the
\* contacts read so far.
GetAllContactsStart(keys) == [keys |-> keys, contacts |-> <<>>, todo |-> <<>>]

\* getAllContacts after redis.get(key) answered for the next key.
GetAllContactsNext(work, data) ==
    [work EXCEPT !.keys = Tail(@),
                 !.contacts = IF data # Null THEN Append(@, ReadContact(Val(data)))
                              ELSE @]

\* The role-removal cascade rewriting no contact.
RoleCascade_None(contacts, roleName) == <<>>

\* The contacts remove_role rewrites, in getAllContacts order: those that
\* hold the role, with the role filtered out.
RoleCascade(contacts, roleName) ==
    LET HasRole(contact) == roleName \in Val(contact.roles)
        holders == SelectSeq(contacts, HasRole)
    IN [i \in DOMAIN holders |->
            [holders[i] EXCEPT !.roles = Some(Val(@) \ {roleName})]]

\* "Remove" clicked next to a role on the Home tab: redis.sRem is issued.
RemoveRoleClick(h, roleName) ==
    /\ FreeSlot(h)
    /\ handlers' = [handlers EXCEPT ![h] =
                       [Idle EXCEPT !.kind = "remove_role", !.pc = "srem",
                                    !.in = Some([role |-> roleName])]]
    /\ UNCHANGED <<redis, pendingTimers, timers, slackThreads, SESSIONS, views>>

\* redis.sRem('roles', roleName) done; getAllContacts issues redis.keys.
RemoveRoleSRem(h) ==
    /\ handlers[h].kind = "remove_role" /\ handlers[h].pc = "srem"
    /\ redis' = sRemRoles(redis, Val(handlers[h].in).role)
    /\ handlers' = [handlers EXCEPT ![h].pc = "keys"]
    /\ UNCHANGED <<pendingTimers, timers, slackThreads, SESSIONS, views>>

\* The handler once getAllContacts has returned: the first rewrite is
\* issued, or the Home tab refresh when no contact holds the role.
RemoveRoleAfterContacts(hd, contacts) ==
    LET todo == RoleCascade(contacts, Val(hd.in).role)
    IN IF todo = <<>>
       THEN [hd EXCEPT !.pc = "slack", !.calls = Append(@, ViewsPublish),
                       !.work = Some([keys |-> <<>>, contacts |-> contacts,
                                      todo |-> <<>>])]
       ELSE [hd EXCEPT !.pc = "set_contact",
                       !.work = Some([keys |-> <<>>, contacts |-> contacts,
                                      todo |-> todo])]

\* redis.keys('contact:*') answered.
RemoveRoleKeys(h) ==
    /\ handlers[h].kind = "remove_role" /\ handlers[h].pc = "keys"
    /\ \E keys \in ContactKeyOrders(redis) :
           handlers' = [handlers EXCEPT ![h] =
               IF keys = <<>> THEN RemoveRoleAfterContacts(handlers[h], <<>>)
               ELSE [handlers[h] EXCEPT !.pc = "get",
                                        !.work = Some(GetAllContactsStart(keys))]]
    /\ UNCHANGED <<redis, pendingTimers, timers, slackThreads, SESSIONS, views>>

\* redis.get(key) answered for the next contact key.
RemoveRoleGet(h) ==
    /\ handlers[h].kind = "remove_role" /\ handlers[h].pc = "get"
    /\ LET work == GetAllContactsNext(Val(handlers[h].work),
                       redis.contact[Head(Val(handlers[h].work).keys)])
       IN handlers' = [handlers EXCEPT ![h] =
              IF work.keys = <<>>
              THEN RemoveRoleAfterContacts(handlers[h], SortByName(work.contacts))
              ELSE [handlers[h] EXCEPT !.work = Some(work)]]
    /\ UNCHANGED <<redis, pendingTimers, timers, slackThreads, SESSIONS, views>>

\* redis.set(`contact:${contact.phone}`, ...) of the next rewritten contact.
RemoveRoleSet(h) ==
    /\ handlers[h].kind = "remove_role" /\ handlers[h].pc = "set_contact"
    /\ LET todo == Val(handlers[h].work).todo
       IN /\ redis' = SetContactKey(redis, Head(todo).phone, Head(todo))
          /\ handlers' = [handlers EXCEPT ![h] =
                 IF Tail(todo) = <<>>
                 THEN [handlers[h] EXCEPT
                          !.pc = "slack", !.calls = Append(@, ViewsPublish),
                          !.work = Some([Val(@) EXCEPT !.todo = <<>>])]
                 ELSE [handlers[h] EXCEPT
                          !.work = Some([Val(@) EXCEPT !.todo = Tail(todo)])]]
    /\ UNCHANGED <<pendingTimers, timers, slackThreads, SESSIONS, views>>

\* ---------------------------------------------------------------------
\* Broadcast (send_broadcast, sendBroadcast, sendWhatsAppBroadcast)
\* ---------------------------------------------------------------------

\* POST api.nexmo.com/v1/messages to one contact.
WhatsAppSend(phone) ==
    [api |-> "whatsapp", sid |-> Some(phone), ts |-> Null, text |-> "broadcast"]

\* The outcome notice for one contact, posted in the thread of the
\* broadcast message: broadcastSentTo or broadcastFailedTo.
OutcomeNotice(phone, text) ==
    [api |-> "outcome_notice", sid |-> Some(phone), ts |-> Null, text |-> text]

\* chat.update of the picker message to "sending".
PickerUpdate(text) ==
    [api |-> "picker_update", sid |-> Null, ts |-> Null, text |-> text]

\* sendBroadcast's return value: 0 when nothing matched, matched.length
\* after the loop.
BroadcastCount(matched) == Len(matched)

\* The final chat.update of the picker: broadcastSent with {count} replaced
\* by the count when count > 0, broadcastNoContacts otherwise.
ResultUpdate(count) ==
    [api |-> "picker_update", sid |-> Null, ts |-> Null,
     text |-> IF count > 0 THEN "broadcastSent" ELSE "broadcastNoContacts",
     count |-> count]

\* sendBroadcast matching every contact that has some role.
MatchedContacts_AnyRole(contacts, selectedRoles) ==
    LET Matches(contact) == Val(contact.roles) # {}
    IN SelectSeq(contacts, Matches)

\* sendBroadcast: the contacts with at least one of the selected roles, in
\* getAllContacts order.
MatchedContacts(contacts, selectedRoles) ==
    LET Matches(contact) == Val(contact.roles) \cap selectedRoles # {}
    IN SelectSeq(contacts, Matches)

\* What a broadcast keeps while it runs: the getAllContacts walk, the
\* matched contacts, those still to send to, and the notices Slack accepted.
BroadcastWork(keys) ==
    [keys |-> keys, contacts |-> <<>>, matched |-> <<>>, todo |-> <<>>,
     notices |-> <<>>, looped |-> FALSE]

\* "Send" clicked on a role picker with the given roles selected. Any roles
\* can be selected: the picker offers the roles registered when the
\* broadcast message was posted. With none selected the handler asks for a
\* role; otherwise it fetches the text of the broadcast message.
SendBroadcastClick(h, selectedRoles) ==
    /\ FreeSlot(h)
    /\ LET hd == [Idle EXCEPT !.kind = "send_broadcast",
                              !.in = Some([roles |-> selectedRoles])]
       IN handlers' = [handlers EXCEPT ![h] =
              IF selectedRoles = {}
              THEN [hd EXCEPT !.pc = "slack",
                              !.calls = <<BroadcastPost("selectRoleFirst")>>]
              ELSE [hd EXCEPT !.pc = "history"]]
    /\ UNCHANGED <<redis, pendingTimers, timers, slackThreads, SESSIONS, views>>

\* conversations.history answered: the picker is updated to "sending".
SendBroadcastHistory(h) ==
    /\ handlers[h].kind = "send_broadcast" /\ handlers[h].pc = "history"
    /\ handlers' = [handlers EXCEPT ![h].pc = "sending",
                                    ![h].calls = Append(@, PickerUpdate("broadcastSending"))]
    /\ UNCHANGED <<redis, pendingTimers, timers, slackThreads, SESSIONS, views>>

\* The "sending" update succeeded: sendBroadcast starts, getAllContacts
\* issues redis.keys.
SendBroadcastSending(h) ==
    /\ handlers[h].kind = "send_broadcast" /\ handlers[h].pc = "sending"
    /\ handlers' = [handlers EXCEPT ![h].pc = "keys"]
    /\ UNCHANGED <<redis, pendingTimers, timers, slackThreads, SESSIONS, views>>

\* sendBroadcast once getAllContacts has returned: with no match it returns
\* 0 and the picker shows broadcastNoContacts; otherwise the message is
\* sent to the first matched contact.
SendBroadcastAfterContacts(hd, contacts) ==
    LET matched == MatchedContacts(contacts, Val(hd.in).roles)
        work == [BroadcastWork(<<>>) EXCEPT !.contacts = contacts,
                                            !.matched = matched, !.todo = matched]
    IN IF matched = <<>>
       THEN [hd EXCEPT !.pc = "slack", !.work = Some([work EXCEPT !.looped = TRUE]),
                       !.calls = Append(@, ResultUpdate(BroadcastCount(matched)))]
       ELSE [hd EXCEPT !.pc = "send", !.work = Some(work),
                       !.calls = Append(@, WhatsAppSend(Head(matched).phone))]

\* redis.keys('contact:*') answered.
SendBroadcastKeys(h) ==
    /\ handlers[h].kind = "send_broadcast" /\ handlers[h].pc = "keys"
    /\ \E keys \in ContactKeyOrders(redis) :
           handlers' = [handlers EXCEPT ![h] =
               IF keys = <<>> THEN SendBroadcastAfterContacts(handlers[h], <<>>)
               ELSE [handlers[h] EXCEPT !.pc = "get",
                                        !.work = Some(BroadcastWork(keys))]]
    /\ UNCHANGED <<redis, pendingTimers, timers, slackThreads, SESSIONS, views>>

\* redis.get(key) answered for the next contact key.
SendBroadcastGet(h) ==
    /\ handlers[h].kind = "send_broadcast" /\ handlers[h].pc = "get"
    /\ LET work == Val(handlers[h].work)
           data == redis.contact[Head(work.keys)]
           contacts == IF data # Null THEN Append(work.contacts, ReadContact(Val(data)))
                       ELSE work.contacts
       IN handlers' = [handlers EXCEPT ![h] =
              IF Tail(work.keys) = <<>>
              THEN SendBroadcastAfterContacts(handlers[h], SortByName(contacts))
              ELSE [handlers[h] EXCEPT
                       !.work = Some([work EXCEPT !.keys = Tail(@),
                                                  !.contacts = contacts])]]
    /\ UNCHANGED <<redis, pendingTimers, timers, slackThreads, SESSIONS, views>>

\* The send to the current contact succeeded: the "sent" notice is posted.
SendBroadcastSent(h) ==
    /\ handlers[h].kind = "send_broadcast" /\ handlers[h].pc = "send"
    /\ handlers' = [handlers EXCEPT
           ![h].pc = "notice",
           ![h].calls = Append(@, OutcomeNotice(Head(Val(handlers[h].work).todo).phone,
                                                "broadcastSentTo"))]
    /\ UNCHANGED <<redis, pendingTimers, timers, slackThreads, SESSIONS, views>>

\* The send to the current contact failed: the catch of
\* sendWhatsAppBroadcast posts the "failed" notice.
SendBroadcastSendFail(h) ==
    /\ handlers[h].kind = "send_broadcast" /\ handlers[h].pc = "send"
    /\ handlers' = [handlers EXCEPT
           ![h].pc = "notice_failed",
           ![h].calls = Append(@, OutcomeNotice(Head(Val(handlers[h].work).todo).phone,
                                                "broadcastFailedTo"))]
    /\ UNCHANGED <<redis, pendingTimers, timers, slackThreads, SESSIONS, views>>

\* The notice for the current contact was posted: sendWhatsAppBroadcast
\* returns and the loop goes on to the next matched contact, or
\* sendBroadcast returns the count and the picker shows the result.
SendBroadcastNoticed(h) ==
    /\ handlers[h].kind = "send_broadcast"
    /\ handlers[h].pc \in {"notice", "notice_failed"}
    /\ LET work == Val(handlers[h].work)
           posted == Append(work.notices, handlers[h].calls[Len(handlers[h].calls)])
       IN handlers' = [handlers EXCEPT ![h] =
              IF Tail(work.todo) = <<>>
              THEN [handlers[h] EXCEPT
                       !.pc = "slack",
                       !.work = Some([work EXCEPT !.todo = <<>>, !.notices = posted,
                                                  !.looped = TRUE]),
                       !.calls = Append(@, ResultUpdate(BroadcastCount(work.matched)))]
              ELSE [handlers[h] EXCEPT
                       !.pc = "send",
                       !.work = Some([work EXCEPT !.todo = Tail(@), !.notices = posted]),
                       !.calls = Append(@, WhatsAppSend(work.todo[2].phone))]]
    /\ UNCHANGED <<redis, pendingTimers, timers, slackThreads, SESSIONS, views>>

\* The post of the "sent" notice failed after a successful send: the same
\* catch posts the "failed" notice.
SendBroadcastNoticeFail(h) ==
    /\ handlers[h].kind = "send_broadcast" /\ handlers[h].pc = "notice"
    /\ handlers' = [handlers EXCEPT
           ![h].pc = "notice_failed",
           ![h].calls = Append(@, OutcomeNotice(Head(Val(handlers[h].work).todo).phone,
                                                "broadcastFailedTo"))]
    /\ UNCHANGED <<redis, pendingTimers, timers, slackThreads, SESSIONS, views>>

\* The post of the "failed" notice failed: it is awaited inside the catch,
\* so the rejection leaves sendWhatsAppBroadcast and sendBroadcast and
\* reaches the catch of /slack/interactions, which logs it.
SendBroadcastAbort(h) ==
    /\ handlers[h].kind = "send_broadcast" /\ handlers[h].pc = "notice_failed"
    /\ handlers' = [handlers EXCEPT ![h].pc = "return", ![h].caught = TRUE]
    /\ UNCHANGED <<redis, pendingTimers, timers, slackThreads, SESSIONS, views>>

\* conversations.history or the "sending" update failed: caught and logged
\* before anything is sent.
SendBroadcastSetupFail(h) ==
    /\ handlers[h].kind = "send_broadcast" /\ handlers[h].pc \in {"history", "sending"}
    /\ handlers' = [handlers EXCEPT ![h].pc = "return", ![h].caught = TRUE]
    /\ UNCHANGED <<redis, pendingTimers, timers, slackThreads, SESSIONS, views>>

InteractionKinds ==
    {"save_click", "save_contact", "add_role", "set_roles", "remove_role",
     "send_broadcast"}

\* The last Slack call of an interaction succeeded.
InteractionCallDone(h) ==
    /\ handlers[h].kind \in InteractionKinds /\ handlers[h].pc = "slack"
    /\ handlers' = [handlers EXCEPT ![h].pc = "return"]
    /\ UNCHANGED <<redis, pendingTimers, timers, slackThreads, SESSIONS, views>>

\* A Slack call of an interaction failed: the catch of /slack/interactions
\* logs it.
InteractionCallFail(h) ==
    /\ handlers[h].kind \in InteractionKinds /\ handlers[h].pc \in {"confirm", "slack"}
    /\ handlers' = [handlers EXCEPT ![h].pc = "return", ![h].caught = TRUE]
    /\ UNCHANGED <<redis, pendingTimers, timers, slackThreads, SESSIONS, views>>

\* The interaction handler returns.
InteractionReturn(h) ==
    /\ handlers[h].kind \in InteractionKinds /\ handlers[h].pc = "return"
    /\ handlers' = [handlers EXCEPT ![h] = Idle]
    /\ UNCHANGED <<redis, pendingTimers, timers, slackThreads, SESSIONS, views>>

\* ---------------------------------------------------------------------
\* Assignments (/slack/assign)
\* ---------------------------------------------------------------------

\* The bound on the mentions one command carries.
MaxMentions == 2

\* The mentions an agent can type: formatted (<@U1>), which carry the user
\* id, or plain (@ann), which resolveUsers looks up in users.list; nobody is
\* called "ghost".
FormattedMentions == {"<@U1>", "<@U2>"}
PlainMentions == {"@ann", "@ghost"}
MentionLists ==
    UNION {[1..n -> FormattedMentions \cup PlainMentions] : n \in 0..MaxMentions}

\* The id a formatted mention carries.
MentionId(mention) == IF mention = "<@U1>" THEN "U1" ELSE "U2"

\* users.list: the members a plain name matches.
UsersList == [name : {"ann"}, id : {"U1"}]
PlainName(mention) == IF mention = "@ann" THEN "ann" ELSE "ghost"

\* The /assign commands: the first word, the two tags as typed ("" when a
\* tag is missing) and the mentions.
AssignCommands ==
    [command : {"help", "list", "clear", "assign"},
     school : {"academy", "Academy", "daycare"},
     intent : {"", "registration", "payment"},
     mentions : MentionLists]

\* resolveUsers, first part: the ids of the formatted mentions, in order.
FormattedIds(mentions) ==
    LET IsFormatted(m) == m \in FormattedMentions
        formatted == SelectSeq(mentions, IsFormatted)
    IN [i \in DOMAIN formatted |-> MentionId(formatted[i])]

\* resolveUsers, fallback: the plain names of the text.
PlainNames(mentions) ==
    LET IsPlain(m) == m \in PlainMentions
        plain == SelectSeq(mentions, IsPlain)
    IN [i \in DOMAIN plain |-> PlainName(plain[i])]

\* resolveUsers after users.list answered: the ids of the names that match
\* a member; a name that matches nobody is dropped.
RECURSIVE LookupNames(_, _)
LookupNames(usernames, members) ==
    IF usernames = <<>> THEN <<>>
    ELSE LET found == {m \in members : m.name = Head(usernames)}
         IN (IF found = {} THEN <<>> ELSE <<(CHOOSE m \in found : TRUE).id>>)
            \o LookupNames(Tail(usernames), members)

AssignResponse(status) == [code |-> 200, status |-> status]

\* The key a command addresses: both tags lower-cased.
CommandKey(cmd) == <<ToLower(cmd.school), ToLower(cmd.intent)>>

\* The clear branch deleting the entry whenever it runs.
AssignAfterResolve_ClearDeletes(hd, userIds) ==
    LET cmd == Val(hd.in)
    IN IF cmd.command = "clear"
       THEN [hd EXCEPT !.pc = "del", !.work = Some([todo |-> <<>>, ids |-> userIds])]
       ELSE IF userIds = <<>>
            THEN [hd EXCEPT !.pc = "responded", !.res = Some(AssignResponse("usage")),
                            !.work = Some([todo |-> <<>>, ids |-> userIds])]
            ELSE [hd EXCEPT !.pc = "sadd", !.work = Some([todo |-> userIds, ids |-> userIds])]

\* The handler once resolveUsers has returned: clear removes the named
\* users or, when none was resolved, deletes the entry; assign adds the
\* users or, when none was resolved, answers with the usage text.
AssignAfterResolve(hd, userIds) ==
    LET cmd == Val(hd.in)
    IN IF cmd.command = "clear"
       THEN IF userIds # <<>>
            THEN [hd EXCEPT !.pc = "srem", !.work = Some([todo |-> userIds, ids |-> userIds])]
            ELSE [hd EXCEPT !.pc = "del", !.work = Some([todo |-> <<>>, ids |-> userIds])]
       ELSE IF userIds = <<>>
            THEN [hd EXCEPT !.pc = "responded", !.res = Some(AssignResponse("usage")),
                            !.work = Some([todo |-> <<>>, ids |-> userIds])]
            ELSE [hd EXCEPT !.pc = "sadd", !.work = Some([todo |-> userIds, ids |-> userIds])]

\* POST /slack/assign arrives: help, list and a command with a tag missing
\* are answered at once; otherwise resolveUsers runs, and calls users.list
\* only when the text has plain mentions and no formatted one.
AssignRequest(h, cmd) ==
    /\ FreeSlot(h)
    /\ LET hd == [Idle EXCEPT !.kind = "assign", !.in = Some(cmd)]
       IN handlers' = [handlers EXCEPT ![h] =
              IF cmd.command = "help"
              THEN [hd EXCEPT !.pc = "responded", !.res = Some(AssignResponse("help"))]
              ELSE IF cmd.command = "list"
              THEN [hd EXCEPT !.pc = "list"]
              ELSE IF ToLower(cmd.school) = "" \/ ToLower(cmd.intent) = ""
              THEN [hd EXCEPT !.pc = "responded", !.res = Some(AssignResponse("usage"))]
              ELSE IF FormattedIds(cmd.mentions) # <<>>
              THEN AssignAfterResolve(hd, FormattedIds(cmd.mentions))
              ELSE IF PlainNames(cmd.mentions) = <<>>
              THEN AssignAfterResolve(hd, <<>>)
              ELSE [hd EXCEPT !.pc = "users_list"]]
    /\ UNCHANGED <<redis, pendingTimers, timers, slackThreads, SESSIONS, views>>

\* users.list answered ok.
AssignUsersList(h) ==
    /\ handlers[h].kind = "assign" /\ handlers[h].pc = "users_list"
    /\ handlers' = [handlers EXCEPT ![h] =
           AssignAfterResolve(handlers[h],
               LookupNames(PlainNames(Val(handlers[h].in).mentions), UsersList))]
    /\ UNCHANGED <<redis, pendingTimers, timers, slackThreads, SESSIONS, views>>

\* users.list failed: resolveUsers logs the error and returns no id.
AssignUsersListFail(h) ==
    /\ handlers[h].kind = "assign" /\ handlers[h].pc = "users_list"
    /\ handlers' = [handlers EXCEPT ![h] =
           [AssignAfterResolve(handlers[h], <<>>) EXCEPT !.caught = TRUE]]
    /\ UNCHANGED <<redis, pendingTimers, timers, slackThreads, SESSIONS, views>>

\* redis.sAdd(`assign:${school}:${userType}`, uid) for the next user.
AssignSAdd(h) ==
    /\ handlers[h].kind = "assign" /\ handlers[h].pc = "sadd"
    /\ LET todo == Val(handlers[h].work).todo
       IN /\ redis' = sAddAssign(redis, CommandKey(Val(handlers[h].in)), Head(todo))
          /\ handlers' = [handlers EXCEPT ![h] =
                 IF Tail(todo) = <<>>
                 THEN [handlers[h] EXCEPT
                          !.pc = "responded", !.res = Some(AssignResponse("assigned")),
                          !.work = Some([Val(@) EXCEPT !.todo = <<>>])]
                 ELSE [handlers[h] EXCEPT
                          !.work = Some([Val(@) EXCEPT !.todo = Tail(todo)])]]
    /\ UNCHANGED <<pendingTimers, timers, slackThreads, SESSIONS, views>>

\* redis.sRem(`assign:${school}:${userType}`, uid) for the next user.
AssignSRem(h) ==
    /\ handlers[h].kind = "assign" /\ handlers[h].pc = "srem"
    /\ LET todo == Val(handlers[h].work).todo
       IN /\ redis' = sRemAssign(redis, CommandKey(Val(handlers[h].in)), Head(todo))
          /\ handlers' = [handlers EXCEPT ![h] =
                 IF Tail(todo) = <<>>
                 THEN [handlers[h] EXCEPT
                          !.pc = "responded", !.res = Some(AssignResponse("removed")),
                          !.work = Some([Val(@) EXCEPT !.todo = <<>>])]
                 ELSE [handlers[h] EXCEPT
                          !.work = Some([Val(@) EXCEPT !.todo = Tail(todo)])]]
    /\ UNCHANGED <<pendingTimers, timers, slackThreads, SESSIONS, views>>

\* redis.del(`assign:${school}:${userType}`)
AssignDel(h) ==
    /\ handlers[h].kind = "assign" /\ handlers[h].pc = "del"
    /\ redis' = DelAssign(redis, CommandKey(Val(handlers[h].in)))
    /\ handlers' = [handlers EXCEPT ![h].pc = "responded",
                                    ![h].res = Some(AssignResponse("cleared"))]
    /\ UNCHANGED <<pendingTimers, timers, slackThreads, SESSIONS, views>>

\* /assign list: getAllAssignments has read the entries.
AssignList(h) ==
    /\ handlers[h].kind = "assign" /\ handlers[h].pc = "list"
    /\ handlers' = [handlers EXCEPT ![h].pc = "responded",
                                    ![h].res = Some(AssignResponse("list"))]
    /\ UNCHANGED <<redis, pendingTimers, timers, slackThreads, SESSIONS, views>>

\* res.json(...) delivered.
AssignResponded(h) ==
    /\ handlers[h].kind = "assign" /\ handlers[h].pc = "responded"
    /\ handlers' = [handlers EXCEPT ![h] = Idle]
    /\ UNCHANGED <<redis, pendingTimers, timers, slackThreads, SESSIONS, views>>

\* ---------------------------------------------------------------------
\* The earliest variant's session table (src/unnamed/part_000), run side by
\* side with the key space
\* ---------------------------------------------------------------------
\* SESSIONS is a JavaScript object: its keys are kept here in the order in
\* which for...in walks them, the order of their first insertion.

\* newSession: SESSIONS[sessionId] = { session_id, thread_ts, created_at };
\* assigning to an existing key keeps its place.
newSession(table, sessionId, threadTs) ==
    LET entry == [session_id |-> sessionId, thread_ts |-> threadTs]
        at == {i \in DOMAIN table : table[i].session_id = sessionId}
    IN IF at = {} THEN Append(table, entry)
       ELSE [i \in DOMAIN table |-> IF i \in at THEN entry ELSE table[i]]

\* findSessionByThread: the first entry of the walk whose thread_ts is the
\* thread, or null.
findSessionByThread(table, threadTs) ==
    LET at == {i \in DOMAIN table : table[i].thread_ts = threadTs}
    IN IF at = {} THEN Null
       ELSE Some(table[CHOOSE i \in at : \A j \in at : i <= j])

\* delete SESSIONS[sessionId]
DeleteEntry(table, sessionId) ==
    LET Kept(entry) == entry.session_id # sessionId
    IN SelectSeq(table, Kept)

\* saveSession run from its call to its return with nothing interleaved.
saveSession(r, sessionId, threadTs, profileName) ==
    SetThreadKey(SetSessionKey(r, sessionId,
                               NewSessionObject(sessionId, threadTs, profileName)),
                 threadTs, sessionId)

\* A session is created in both variants: the chat platform returns the ts
\* of the new thread, the earliest variant calls newSession(sessionId,
\* threadTs) and the key-value variant saveSession(sessionId, threadTs,
\* profileName).
CreateSession(sessionId) ==
    /\ Len(slackThreads) < MaxStarts
    /\ LET threadTs == Len(slackThreads) + 1
       IN /\ slackThreads' = Append(slackThreads, sessionId)
          /\ SESSIONS' = newSession(SESSIONS, sessionId, threadTs)
          /\ redis' = saveSession(redis, sessionId, threadTs, "Unknown")
    /\ UNCHANGED <<pendingTimers, timers, handlers, views>>

\* The session of a thread is closed in both variants: each resolves the
\* thread with its own lookup, returns when it finds nothing, and otherwise
\* removes what it found (delete SESSIONS[session.session_id] /
\* deleteSession(session.session_id, threadTs)).
CloseSession(threadTs) ==
    /\ threadTs \in 1..Len(slackThreads)
    /\ LET found == findSessionByThread(SESSIONS, threadTs)
           session == getSessionByThread(redis, threadTs)
           d == deleteSession(redis, pendingTimers, timers,
                              Val(session).session_id, threadTs)
       IN /\ SESSIONS' = IF found = Null THEN SESSIONS
                         ELSE DeleteEntry(SESSIONS, Val(found).session_id)
          /\ redis' = IF session = Null THEN redis ELSE d.redis
          /\ pendingTimers' = IF session = Null THEN pendingTimers ELSE d.pendingTimers
          /\ timers' = IF session = Null THEN timers ELSE d.timers
    /\ UNCHANGED <<slackThreads, handlers, views>>

\* An event names a thread and each variant looks its session up; both
\* answers are kept until the event has been dealt with.
LookupByThread(h, threadTs) ==
    /\ FreeSlot(h)
    /\ threadTs \in Threads
    /\ handlers' = [handlers EXCEPT ![h] =
           [Idle EXCEPT !.kind = "lookup", !.pc = "return",
                        !.ts = Some(threadTs),
                        !.session = getSessionByThread(redis, threadTs),
                        !.work = Some([found |-> findSessionByThread(SESSIONS, threadTs)])]]
    /\ UNCHANGED <<redis, pendingTimers, timers, slackThreads, SESSIONS, views>>

LookupReturn(h) ==
    /\ handlers[h].kind = "lookup" /\ handlers[h].pc = "return"
    /\ handlers' = [handlers EXCEPT ![h] = Idle]
    /\ UNCHANGED <<redis, pendingTimers, timers, slackThreads, SESSIONS, views>>

\* ---------------------------------------------------------------------
\* Specifications
\* ---------------------------------------------------------------------

\* Steps of the request handlers.
RequestStep ==
    \/ \E h \in Slots, s \in Sessions : StartRequest(h, s, NoParams)
    \/ \E h \in Slots : StartPost(h)
    \/ \E h \in Slots : StartPostFail(h)
    \/ \E h \in Slots : StartSetSession(h)
    \/ \E h \in Slots : StartSetThread(h)
    \/ \E h \in Slots : StartSchedule(h)
    \/ \E h \in Slots : ResponseDelivered(h)
    \/ \E h \in Slots, s \in Sessions : InboundRequest(h, s)
    \/ \E h \in Slots : InboundGetSession(h)
    \/ \E h \in Slots : InboundPost(h)
    \/ \E h \in Slots : InboundPostFail(h)
    \/ \E h \in Slots, e \in Events : MessageEvent(h, e)
    \/ \E h \in Slots : MessageGetThread(h)
    \/ \E h \in Slots : MessageGetSession(h)
    \/ \E h \in Slots : MessageSend(h)
    \/ \E h \in Slots : MessageSendFail(h)
    \/ \E h \in Slots : BroadcastGetRoles(h)
    \/ \E h \in Slots : BroadcastPosted(h)
    \/ \E h \in Slots : BroadcastPostFail(h)
    \/ \E h \in Slots : EventsReturn(h)
    \/ \E h \in Slots, t \in Threads : CloseClick(h, t)
    \/ \E h \in Slots : CloseGetThread(h)
    \/ \E h \in Slots : CloseGetSession(h)
    \/ \E h \in Slots : CloseDisconnect(h)
    \/ \E h \in Slots : CloseNotice(h)
    \/ \E h \in Slots : CloseUpdate(h)
    \/ \E h \in Slots : CloseFail(h)
    \/ \E h \in Slots : CloseDelSession(h)
    \/ \E h \in Slots : CloseDelThread(h)

\* Steps of the clock and of the timer callbacks.
TimerStep ==
    \/ Tick
    \/ \E i \in TimerIds : TimerFire(i)
    \/ \E i \in TimerIds : BusyGetSession(i)
    \/ \E i \in TimerIds : BusySend(i)
    \/ \E i \in TimerIds : BusyNotify(i)
    \/ \E i \in TimerIds : BusyFail(i)

\* Steps of the /slack/assign command and of the contact, role and
\* broadcast interactions, the lookups of a Start that carries a phone
\* number or tags, and the replies that carry files.
AdminStep ==
    \/ \E h \in Slots, s \in Sessions, p \in StartParams : StartRequest(h, s, p)
    \/ \E h \in Slots : StartGetContact(h)
    \/ \E h \in Slots : StartGetAssignees(h)
    \/ \E h \in Slots, cmd \in AssignCommands : AssignRequest(h, cmd)
    \/ \E h \in Slots : AssignUsersList(h)
    \/ \E h \in Slots : AssignUsersListFail(h)
    \/ \E h \in Slots : AssignSAdd(h)
    \/ \E h \in Slots : AssignSRem(h)
    \/ \E h \in Slots : AssignDel(h)
    \/ \E h \in Slots : AssignList(h)
    \/ \E h \in Slots : AssignResponded(h)
    \/ \E h \in Slots, t \in Threads, p \in Phones : SaveContactClick(h, t, p)
    \/ \E h \in Slots : SaveContactOpen(h)
    \/ \E h \in Slots, t \in Threads, p \in Phones, n \in ContactNames :
           SaveContactSubmit(h, t, p, n)
    \/ \E h \in Slots : SaveContactSet(h)
    \/ \E h \in Slots : SaveContactConfirmed(h)
    \/ \E h \in Slots, text \in RoleInputs : AddRoleSubmit(h, text)
    \/ \E h \in Slots : AddRoleSAdd(h)
    \/ \E h \in Slots, p \in Phones, roles \in SUBSET Roles : SetRolesSubmit(h, p, roles)
    \/ \E h \in Slots : SetRolesGetContact(h)
    \/ \E h \in Slots : SetRolesSet(h)
    \/ \E h \in Slots, r \in Roles : RemoveRoleClick(h, r)
    \/ \E h \in Slots : RemoveRoleSRem(h)
    \/ \E h \in Slots : RemoveRoleKeys(h)
    \/ \E h \in Slots : RemoveRoleGet(h)
    \/ \E h \in Slots : RemoveRoleSet(h)
    \/ \E h \in Slots, p \in Phones : EditRolesClick(h, p)
    \/ \E h \in Slots : EditRolesGetContact(h)
    \/ \E h \in Slots : EditRolesGetRoles(h)
    \/ \E h \in Slots : EditRolesOpened(h)
    \/ \E h \in Slots : EditRolesOpenFail(h)
    \/ \E h \in Slots, p \in Phones, roles \in SUBSET Roles :
           EditRolesSave(h, p, roles)
    \/ \E h \in Slots, e \in FileReplies : MessageEvent(h, e)
    \/ \E h \in Slots : FileDownloaded(h)
    \/ \E h \in Slots : FileUploaded(h)
    \/ \E h \in Slots : FileSent(h)
    \/ \E h \in Slots : FileNoticed(h)
    \/ \E h \in Slots : FileStepFail(h)
    \/ \E h \in Slots : FileAbort(h)
    \/ \E h \in Slots, roles \in SUBSET Roles : SendBroadcastClick(h, roles)
    \/ \E h \in Slots : SendBroadcastHistory(h)
    \/ \E h \in Slots : SendBroadcastSending(h)
    \/ \E h \in Slots : SendBroadcastSetupFail(h)
    \/ \E h \in Slots : SendBroadcastKeys(h)
    \/ \E h \in Slots : SendBroadcastGet(h)
    \/ \E h \in Slots : SendBroadcastSent(h)
    \/ \E h \in Slots : SendBroadcastSendFail(h)
    \/ \E h \in Slots : SendBroadcastNoticed(h)
    \/ \E h \in Slots : SendBroadcastNoticeFail(h)
    \/ \E h \in Slots : SendBroadcastAbort(h)
    \/ \E h \in Slots : InteractionCallDone(h)
    \/ \E h \in Slots : InteractionCallFail(h)
    \/ \E h \in Slots : InteractionReturn(h)

\* The whole system.
Next == RequestStep \/ TimerStep \/ AdminStep

Spec == Init /\ [][Next]_vars

\* The session registry: the handlers of /start (carrying a session id
\* only), /inbound, /slack/events and Close, with up to MaxInflight of them
\* suspended at once.  Timers are scheduled and cancelled but the clock
\* stands still, and the directory (contacts, roles, assignments) stays
\* empty.  No timer step writes redis, slackThreads or handlers, and no
\* handler step reads a timer.
SpecRegistry == Init /\ [][RequestStep]_vars

\* The timers: the clock and the timer callbacks interleave at every await
\* with the handlers that schedule and cancel timers (start, agent reply,
\* close); requests are served one at a time.
FirstSlot == {h \in Slots : \A g \in Slots : h <= g}

NextTimers ==
    \/ \E h \in FirstSlot, s \in Sessions : StartRequest(h, s, NoParams)
    \/ \E h \in Slots : StartPost(h)
    \/ \E h \in Slots : StartPostFail(h)
    \/ \E h \in Slots : StartSetSession(h)
    \/ \E h \in Slots : StartSetThread(h)
    \/ \E h \in Slots : StartSchedule(h)
    \/ \E h \in Slots : ResponseDelivered(h)
    \/ \E h \in FirstSlot, e \in AgentReplies : MessageEvent(h, e)
    \/ \E h \in Slots : MessageGetThread(h)
    \/ \E h \in Slots : MessageGetSession(h)
    \/ \E h \in Slots : MessageSend(h)
    \/ \E h \in Slots : MessageSendFail(h)
    \/ \E h \in Slots : EventsReturn(h)
    \/ \E h \in FirstSlot, t \in Threads : CloseClick(h, t)
    \/ \E h \in Slots : CloseGetThread(h)
    \/ \E h \in Slots : CloseGetSession(h)
    \/ \E h \in Slots : CloseDisconnect(h)
    \/ \E h \in Slots : CloseNotice(h)
    \/ \E h \in Slots : CloseUpdate(h)
    \/ \E h \in Slots : CloseFail(h)
    \/ \E h \in Slots : CloseDelSession(h)
    \/ \E h \in Slots : CloseDelThread(h)
    \/ Tick
    \/ \E i \in TimerIds : TimerFire(i)
    \/ \E i \in TimerIds : BusyGetSession(i)
    \/ \E i \in TimerIds : BusySend(i)
    \/ \E i \in TimerIds : BusyNotify(i)
    \/ \E i \in TimerIds : BusyFail(i)

SpecTimers == Init /\ [][NextTimers]_vars


\* The contact directory on its own: Starts that carry a phone number and a
\* profile name, and the contact and role interactions of the Home tab and
\* of the Save Contact button, served one at a time.
DirectoryStarts ==
    {p \in StartParams : p.school = "" /\ p.intent = ""}

NextDirectory ==
    \/ \E h \in FirstSlot, s \in Sessions, p \in DirectoryStarts : StartRequest(h, s, p)
    \/ \E h \in Slots : StartGetContact(h)
    \/ \E h \in Slots : StartPost(h)
    \/ \E h \in Slots : StartPostFail(h)
    \/ \E h \in Slots : StartSetSession(h)
    \/ \E h \in Slots : StartSetThread(h)
    \/ \E h \in Slots : StartSchedule(h)
    \/ \E h \in Slots : ResponseDelivered(h)
    \/ \E h \in FirstSlot, t \in Threads, p \in Phones : SaveContactClick(h, t, p)
    \/ \E h \in Slots : SaveContactOpen(h)
    \/ \E h \in FirstSlot, t \in Threads, p \in Phones, n \in ContactNames :
           SaveContactSubmit(h, t, p, n)
    \/ \E h \in Slots : SaveContactSet(h)
    \/ \E h \in Slots : SaveContactConfirmed(h)
    \/ \E h \in FirstSlot, text \in RoleInputs : AddRoleSubmit(h, text)
    \/ \E h \in Slots : AddRoleSAdd(h)
    \/ \E h \in FirstSlot, p \in Phones, roles \in SUBSET Roles : SetRolesSubmit(h, p, roles)
    \/ \E h \in Slots : SetRolesGetContact(h)
    \/ \E h \in Slots : SetRolesSet(h)
    \/ \E h \in FirstSlot, r \in Roles : RemoveRoleClick(h, r)
    \/ \E h \in Slots : RemoveRoleSRem(h)
    \/ \E h \in Slots : RemoveRoleKeys(h)
    \/ \E h \in Slots : RemoveRoleGet(h)
    \/ \E h \in Slots : RemoveRoleSet(h)
    \/ \E h \in Slots : InteractionCallDone(h)
    \/ \E h \in Slots : InteractionCallFail(h)
    \/ \E h \in Slots : InteractionReturn(h)

SpecDirectory == Init /\ [][NextDirectory]_vars


\* The /assign command on its own, one command at a time.
NextAssign ==
    \/ \E h \in FirstSlot, cmd \in AssignCommands : AssignRequest(h, cmd)
    \/ \E h \in Slots : AssignUsersList(h)
    \/ \E h \in Slots : AssignUsersListFail(h)
    \/ \E h \in Slots : AssignSAdd(h)
    \/ \E h \in Slots : AssignSRem(h)
    \/ \E h \in Slots : AssignDel(h)
    \/ \E h \in Slots : AssignList(h)
    \/ \E h \in Slots : AssignResponded(h)

SpecAssign == Init /\ [][NextAssign]_vars


\* Routing on its own: Starts that carry the two tags, and the /assign
\* commands that fill and empty the entries they look up, served one at a
\* time.
RoutingStarts ==
    {p \in StartParams : p.phone = "" /\ p.profile = "Pat"}
RoutingCommands ==
    {cmd \in AssignCommands :
        /\ cmd.command \in {"assign", "clear"}
        /\ cmd.intent # ""
        /\ cmd.mentions \in {<<>>, <<"<@U1>">>, <<"<@U2>">>}}

NextRouting ==
    \/ \E h \in FirstSlot, s \in Sessions, p \in RoutingStarts : StartRequest(h, s, p)
    \/ \E h \in Slots : StartGetAssignees(h)
    \/ \E h \in Slots : StartPost(h)
    \/ \E h \in Slots : StartPostFail(h)
    \/ \E h \in Slots : StartSetSession(h)
    \/ \E h \in Slots : StartSetThread(h)
    \/ \E h \in Slots : StartSchedule(h)
    \/ \E h \in Slots : ResponseDelivered(h)
    \/ \E h \in FirstSlot, cmd \in RoutingCommands : AssignRequest(h, cmd)
    \/ \E h \in Slots : AssignSAdd(h)
    \/ \E h \in Slots : AssignSRem(h)
    \/ \E h \in Slots : AssignDel(h)
    \/ \E h \in Slots : AssignResponded(h)

SpecRouting == Init /\ [][NextRouting]_vars


\* Broadcasts on their own: a Start opens a thread, contacts are saved from
\* it and given roles, and broadcasts are sent to the selected roles; the
\* requests are served one at a time.
BroadcastStarts ==
    {p \in StartParams : p.phone # "" /\ p.profile = "Pat" /\ p.school = "" /\ p.intent = ""}

NextBroadcast ==
    \/ \E h \in FirstSlot, p \in BroadcastStarts : StartRequest(h, "abc-123", p)
    \/ \E h \in Slots : StartGetContact(h)
    \/ \E h \in Slots : StartPost(h)
    \/ \E h \in Slots : StartPostFail(h)
    \/ \E h \in Slots : StartSetSession(h)
    \/ \E h \in Slots : StartSetThread(h)
    \/ \E h \in Slots : StartSchedule(h)
    \/ \E h \in Slots : ResponseDelivered(h)
    \/ \E h \in FirstSlot, t \in Threads, p \in Phones, n \in ContactNames :
           SaveContactSubmit(h, t, p, n)
    \/ \E h \in Slots : SaveContactSet(h)
    \/ \E h \in Slots : SaveContactConfirmed(h)
    \/ \E h \in FirstSlot, p \in Phones, roles \in SUBSET Roles : SetRolesSubmit(h, p, roles)
    \/ \E h \in Slots : SetRolesGetContact(h)
    \/ \E h \in Slots : SetRolesSet(h)
    \/ \E h \in FirstSlot, roles \in SUBSET Roles : SendBroadcastClick(h, roles)
    \/ \E h \in Slots : SendBroadcastHistory(h)
    \/ \E h \in Slots : SendBroadcastSending(h)
    \/ \E h \in Slots : SendBroadcastSetupFail(h)
    \/ \E h \in Slots : SendBroadcastKeys(h)
    \/ \E h \in Slots : SendBroadcastGet(h)
    \/ \E h \in Slots : SendBroadcastSent(h)
    \/ \E h \in Slots : SendBroadcastSendFail(h)
    \/ \E h \in Slots : SendBroadcastNoticed(h)
    \/ \E h \in Slots : SendBroadcastNoticeFail(h)
    \/ \E h \in Slots : SendBroadcastAbort(h)
    \/ \E h \in Slots : InteractionCallDone(h)
    \/ \E h \in Slots : InteractionCallFail(h)
    \/ \E h \in Slots : InteractionReturn(h)

SpecBroadcast == Init /\ [][NextBroadcast]_vars


\* The two lookups side by side: sessions are created and closed in both
\* variants, one operation after the other, and threads are looked up in
\* both.
NextLookup ==
    \/ \E s \in Sessions : CreateSession(s)
    \/ \E t \in Threads : CloseSession(t)
    \/ \E h \in Slots, t \in Threads : LookupByThread(h, t)
    \/ \E h \in Slots : LookupReturn(h)

SpecLookup == Init /\ [][NextLookup]_vars


\* The AI platform hands one conversation over: the only POST /start of the
\* run, for session "abc-123".
FirstStart(h) ==
    /\ slackThreads = <<>>
    /\ StartRequest(h, "abc-123", NoParams)

\* Everything that runs while a session is open, one request at a time: one
\* session is started, customer messages and agent replies arrive, the
\* clock moves and the reminders fire, contacts, roles and assignments are
\* administered, and the ticket is closed.
FrameCommands ==
    {cmd \in AssignCommands :
        /\ cmd.command \in {"assign", "clear"}
        /\ cmd.school = "academy" /\ cmd.intent = "registration"
        /\ cmd.mentions = <<"<@U1>">>}

NextFrame ==
    \/ \E h \in FirstSlot : FirstStart(h)
    \/ \E h \in Slots : StartPost(h)
    \/ \E h \in Slots : StartPostFail(h)
    \/ \E h \in Slots : StartSetSession(h)
    \/ \E h \in Slots : StartSetThread(h)
    \/ \E h \in Slots : StartSchedule(h)
    \/ \E h \in Slots : ResponseDelivered(h)
    \/ \E h \in FirstSlot : InboundRequest(h, "abc-123")
    \/ \E h \in Slots : InboundGetSession(h)
    \/ \E h \in Slots : InboundPost(h)
    \/ \E h \in Slots : InboundPostFail(h)
    \/ \E h \in FirstSlot, e \in AgentReplies : MessageEvent(h, e)
    \/ \E h \in Slots : MessageGetThread(h)
    \/ \E h \in Slots : MessageGetSession(h)
    \/ \E h \in Slots : MessageSend(h)
    \/ \E h \in Slots : MessageSendFail(h)
    \/ \E h \in Slots : EventsReturn(h)
    \/ \E h \in FirstSlot, t \in Threads : CloseClick(h, t)
    \/ \E h \in Slots : CloseGetThread(h)
    \/ \E h \in Slots : CloseGetSession(h)
    \/ \E h \in Slots : CloseDisconnect(h)
    \/ \E h \in Slots : CloseNotice(h)
    \/ \E h \in Slots : CloseUpdate(h)
    \/ \E h \in Slots : CloseFail(h)
    \/ \E h \in Slots : CloseDelSession(h)
    \/ \E h \in Slots : CloseDelThread(h)
    \/ Tick
    \/ \E i \in TimerIds : TimerFire(i)
    \/ \E i \in TimerIds : BusyGetSession(i)
    \/ \E i \in TimerIds : BusySend(i)
    \/ \E i \in TimerIds : BusyNotify(i)
    \/ \E i \in TimerIds : BusyFail(i)
    \/ \E h \in FirstSlot, t \in Threads : SaveContactSubmit(h, t, "15551234567", "Dana")
    \/ \E h \in Slots : SaveContactSet(h)
    \/ \E h \in Slots : SaveContactConfirmed(h)
    \/ \E h \in FirstSlot : AddRoleSubmit(h, "vip")
    \/ \E h \in Slots : AddRoleSAdd(h)
    \/ \E h \in FirstSlot : SetRolesSubmit(h, "15551234567", {"vip"})
    \/ \E h \in Slots : SetRolesGetContact(h)
    \/ \E h \in Slots : SetRolesSet(h)
    \/ \E h \in FirstSlot : RemoveRoleClick(h, "vip")
    \/ \E h \in Slots : RemoveRoleSRem(h)
    \/ \E h \in Slots : RemoveRoleKeys(h)
    \/ \E h \in Slots : RemoveRoleGet(h)
    \/ \E h \in Slots : RemoveRoleSet(h)
    \/ \E h \in Slots : InteractionCallDone(h)
    \/ \E h \in Slots : InteractionCallFail(h)
    \/ \E h \in Slots : InteractionReturn(h)
    \/ \E h \in FirstSlot, cmd \in FrameCommands : AssignRequest(h, cmd)
    \/ \E h \in Slots : AssignSAdd(h)
    \/ \E h \in Slots : AssignSRem(h)
    \/ \E h \in Slots : AssignResponded(h)

SpecFrame == Init /\ [][NextFrame]_vars


\* Agent replies with files: sessions are started and replies that carry
\* files arrive in their threads, one request at a time.
NextFiles ==
    \/ \E h \in FirstSlot, s \in Sessions : StartRequest(h, s, NoParams)
    \/ \E h \in Slots : StartPost(h)
    \/ \E h \in Slots : StartPostFail(h)
    \/ \E h \in Slots : StartSetSession(h)
    \/ \E h \in Slots : StartSetThread(h)
    \/ \E h \in Slots : StartSchedule(h)
    \/ \E h \in Slots : ResponseDelivered(h)
    \/ \E h \in FirstSlot, e \in FileReplies : MessageEvent(h, e)
    \/ \E h \in Slots : MessageGetThread(h)
    \/ \E h \in Slots : MessageGetSession(h)
    \/ \E h \in Slots : FileDownloaded(h)
    \/ \E h \in Slots : FileUploaded(h)
    \/ \E h \in Slots : FileSent(h)
    \/ \E h \in Slots : FileNoticed(h)
    \/ \E h \in Slots : FileStepFail(h)
    \/ \E h \in Slots : FileAbort(h)
    \/ \E h \in Slots : EventsReturn(h)

SpecFiles == Init /\ [][NextFiles]_vars


\* The end of a conversation: one session is started, and agent replies
\* and Close clicks on its thread are handled concurrently, up to
\* MaxInflight at once, while the clock moves and the reminders fire.
NextClosing ==
    \/ \E h \in FirstSlot : FirstStart(h)
    \/ \E h \in Slots : StartPost(h)
    \/ \E h \in Slots : StartPostFail(h)
    \/ \E h \in Slots : StartSetSession(h)
    \/ \E h \in Slots : StartSetThread(h)
    \/ \E h \in Slots : StartSchedule(h)
    \/ \E h \in Slots : ResponseDelivered(h)
    \/ \E h \in Slots, e \in AgentReplies : MessageEvent(h, e)
    \/ \E h \in Slots : MessageGetThread(h)
    \/ \E h \in Slots : MessageGetSession(h)
    \/ \E h \in Slots : MessageSend(h)
    \/ \E h \in Slots : MessageSendFail(h)
    \/ \E h \in Slots : EventsReturn(h)
    \/ \E h \in Slots, t \in Threads : CloseClick(h, t)
    \/ \E h \in Slots : CloseGetThread(h)
    \/ \E h \in Slots : CloseGetSession(h)
    \/ \E h \in Slots : CloseDisconnect(h)
    \/ \E h \in Slots : CloseNotice(h)
    \/ \E h \in Slots : CloseUpdate(h)
    \/ \E h \in Slots : CloseFail(h)
    \/ \E h \in Slots : CloseDelSession(h)
    \/ \E h \in Slots : CloseDelThread(h)
    \/ Tick
    \/ \E i \in TimerIds : TimerFire(i)
    \/ \E i \in TimerIds : BusyGetSession(i)
    \/ \E i \in TimerIds : BusySend(i)
    \/ \E i \in TimerIds : BusyNotify(i)
    \/ \E i \in TimerIds : BusyFail(i)

SpecClosing == Init /\ [][NextClosing]_vars

\* The role registry and the contacts' role tags, one interaction at a
\* time: one thread is opened so that contacts can be saved from it, roles
\* are added and removed, the "Edit Roles" modal is opened and saved, and
\* a modal stays on the agent's screen until its Save is pressed.
NextRoles ==
    \/ \E h \in FirstSlot : FirstStart(h)
    \/ \E h \in Slots : StartPost(h)
    \/ \E h \in Slots : StartPostFail(h)
    \/ \E h \in Slots : StartSetSession(h)
    \/ \E h \in Slots : StartSetThread(h)
    \/ \E h \in Slots : StartSchedule(h)
    \/ \E h \in Slots : ResponseDelivered(h)
    \/ \E h \in FirstSlot, t \in Threads, p \in Phones, n \in ContactNames :
           SaveContactSubmit(h, t, p, n)
    \/ \E h \in Slots : SaveContactSet(h)
    \/ \E h \in Slots : SaveContactConfirmed(h)
    \/ \E h \in FirstSlot, text \in RoleInputs : AddRoleSubmit(h, text)
    \/ \E h \in Slots : AddRoleSAdd(h)
    \/ \E h \in FirstSlot, p \in Phones : EditRolesClick(h, p)
    \/ \E h \in Slots : EditRolesGetContact(h)
    \/ \E h \in Slots : EditRolesGetRoles(h)
    \/ \E h \in Slots : EditRolesOpened(h)
    \/ \E h \in Slots : EditRolesOpenFail(h)
    \/ \E h \in FirstSlot, p \in Phones, roles \in SUBSET Roles :
           EditRolesSave(h, p, roles)
    \/ \E h \in Slots : SetRolesGetContact(h)
    \/ \E h \in Slots : SetRolesSet(h)
    \/ \E h \in FirstSlot, r \in Roles : RemoveRoleClick(h, r)
    \/ \E h \in Slots : RemoveRoleSRem(h)
    \/ \E h \in Slots : RemoveRoleKeys(h)
    \/ \E h \in Slots : RemoveRoleGet(h)
    \/ \E h \in Slots : RemoveRoleSet(h)
    \/ \E h \in Slots : InteractionCallDone(h)
    \/ \E h \in Slots : InteractionCallFail(h)
    \/ \E h \in Slots : InteractionReturn(h)

SpecRoles == Init /\ [][NextRoles]_vars

\* The role-removal cascade running against the contact handlers, with up
\* to MaxInflight of them suspended at once: one thread, one contact, one
\* role.  The contact is saved and renamed from the thread, the role is
\* added, edited into the contact through the modal, and removed.
CascadePhones == {"15551234567"}
CascadeRoles == {"vip"}

NextCascade ==
    \/ \E h \in FirstSlot : FirstStart(h)
    \/ \E h \in Slots : StartPost(h)
    \/ \E h \in Slots : StartPostFail(h)
    \/ \E h \in Slots : StartSetSession(h)
    \/ \E h \in Slots : StartSetThread(h)
    \/ \E h \in Slots : StartSchedule(h)
    \/ \E h \in Slots : ResponseDelivered(h)
    \/ \E h \in Slots, t \in Threads, p \in CascadePhones, n \in ContactNames :
           SaveContactSubmit(h, t, p, n)
    \/ \E h \in Slots : SaveContactSet(h)
    \/ \E h \in Slots : SaveContactConfirmed(h)
    \/ \E h \in Slots, r \in CascadeRoles : AddRoleSubmit(h, r)
    \/ \E h \in Slots : AddRoleSAdd(h)
    \/ \E h \in Slots, p \in CascadePhones : EditRolesClick(h, p)
    \/ \E h \in Slots : EditRolesGetContact(h)
    \/ \E h \in Slots : EditRolesGetRoles(h)
    \/ \E h \in Slots : EditRolesOpened(h)
    \/ \E h \in Slots : EditRolesOpenFail(h)
    \/ \E h \in Slots, p \in CascadePhones, roles \in SUBSET CascadeRoles :
           EditRolesSave(h, p, roles)
    \/ \E h \in Slots : SetRolesGetContact(h)
    \/ \E h \in Slots : SetRolesSet(h)
    \/ \E h \in Slots, r \in CascadeRoles : RemoveRoleClick(h, r)
    \/ \E h \in Slots : RemoveRoleSRem(h)
    \/ \E h \in Slots : RemoveRoleKeys(h)
    \/ \E h \in Slots : RemoveRoleGet(h)
    \/ \E h \in Slots : RemoveRoleSet(h)
    \/ \E h \in Slots : InteractionCallDone(h)
    \/ \E h \in Slots : InteractionCallFail(h)
    \/ \E h \in Slots : InteractionReturn(h)

SpecCascade == Init /\ [][NextCascade]_vars

\* ---------------------------------------------------------------------
\* Vocabulary of the properties
\* ---------------------------------------------------------------------
Created == 1..Len(slackThreads)

\* The /start handler that created thread t has answered.
StartDone(t) ==
    /\ t \in Created
    /\ \A h \in Slots : ~( /\ handlers[h].kind = "start"
                            /\ handlers[h].ts = Some(t)
                            /\ handlers[h].pc # "responded" )

\* Handler h is between the two store writes of saveSession / deleteSession.
MidStoreWrites(h) ==
    \/ handlers[h].kind = "start" /\ handlers[h].pc = "save_thread"
    \/ handlers[h].kind = "close" /\ handlers[h].pc = "del_thread"

\* A /start for session s is between its two store writes.
StartMidWrites(s) ==
    \E h \in Slots : /\ handlers[h].kind = "start"
                     /\ handlers[h].pc = "save_thread"
                     /\ handlers[h].sid = Some(s)

\* session:{s} holds a record with thread t  <=>  thread:{t} holds s.
IndicesAgree ==
    \A s \in Sessions, t \in Threads :
        (getSession(redis, s) # Null /\ Val(getSession(redis, s)).thread_ts = t)
        <=> redis.thread[t] = Some(s)

\* Looking s up, then its thread through the reverse index, gives s back.
RoundTrip(s) ==
    LET back == getSessionByThread(redis, Val(getSession(redis, s)).thread_ts)
    IN back # Null /\ Val(back).session_id = s

\* ---------------------------------------------------------------------
\* C1 - index agreement
\* ---------------------------------------------------------------------

\* C1: whenever no Start or Close handler is between its store writes, the
\* forward and the reverse index agree: session:{s} holds a record with
\* thread t if and only if thread:{t} holds s.
C1_IndicesAgree ==
    (\A h \in Slots : ~MidStoreWrites(h)) => IndicesAgree

\* ---------------------------------------------------------------------
\* C2 - duplicate Start
\* ---------------------------------------------------------------------

\* C2: when two Starts for one session id have completed, creating thread
\* t1 and then t2, lookup by t2 returns the session and lookup by t1 returns
\* not-found.
C2_OnlySecondThreadIndexed ==
    \A t1 \in Created, t2 \in Created :
        ( /\ t1 < t2
          /\ slackThreads[t1] = slackThreads[t2]
          /\ StartDone(t1) /\ StartDone(t2)
          /\ \A h \in Slots : handlers[h].kind # "close"
          /\ getSession(redis, slackThreads[t2]) =
                 Some(NewSessionObject(slackThreads[t2], t2, "Unknown")) )
        => /\ getSessionByThread(redis, t2) = getSession(redis, slackThreads[t2])
           /\ getSessionByThread(redis, t1) = Null

\* ---------------------------------------------------------------------
\* C3 - index round trip
\* ---------------------------------------------------------------------

\* C3 as stated: for every session s created by a completed Start and not
\* yet closed, the reverse lookup of the thread id of s's record returns the
\* session whose id is s.
C3_RoundTripAlways ==
    \A s \in Sessions :
        ( /\ \E t \in Created : slackThreads[t] = s /\ StartDone(t)
          /\ getSession(redis, s) # Null )
        => RoundTrip(s)

\* C3 amended: the round trip holds for every such session whenever no
\* Start for that session id is between its two store writes.
C3_RoundTrip ==
    \A s \in Sessions :
        ( /\ \E t \in Created : slackThreads[t] = s /\ StartDone(t)
          /\ getSession(redis, s) # Null
          /\ ~StartMidWrites(s) )
        => RoundTrip(s)

\* A session whose record was overwritten by a second completed Start and
\* that round-trips through the second thread.
C3_Witness ==
    \E s \in Sessions, t1 \in Created, t2 \in Created :
        /\ t1 < t2
        /\ slackThreads[t1] = s /\ slackThreads[t2] = s
        /\ StartDone(t1) /\ StartDone(t2)
        /\ getSession(redis, s) # Null
        /\ ~StartMidWrites(s)
        /\ RoundTrip(s)

\* ---------------------------------------------------------------------
\* C4 - lookups after deleteSession
\* ---------------------------------------------------------------------

\* The step in which the close handler h returns from deleteSession.
DeleteSessionReturns(h) ==
    /\ handlers[h].kind = "close"
    /\ handlers[h].pc = "del_thread"
    /\ handlers'[h].kind = "idle"

\* C4 as stated: when deleteSession(s, t) run by Close has completed, lookup
\* by session id s, by thread t and by the thread id of the session's record
\* all report not-found.
C4_NotFoundAfterDelete ==
    [][\A h \in Slots :
          DeleteSessionReturns(h) =>
              /\ getSession(redis', Val(handlers[h].session).session_id) = Null
              /\ getSessionByThread(redis', Val(handlers[h].ts)) = Null
              /\ getSessionByThread(redis', Val(handlers[h].session).thread_ts) = Null
      ]_vars

\* C4 amended: when deleteSession(s, t) has completed, the reverse entry of
\* t is gone and the record the Close found is gone: lookup by s, by t or by
\* that record's thread id reports not-found, or returns a different record
\* that a Start for s saved (with its own new thread) while the delete ran.
C4_DeletedRecordGone ==
    [][\A h \in Slots :
          DeleteSessionReturns(h) =>
              LET s == Val(handlers[h].session).session_id
                  old == Val(handlers[h].session).thread_ts
                  Gone(found) == \/ found = Null
                                 \/ /\ Val(found).session_id = s
                                    /\ Val(found).thread_ts # old
                                    /\ Val(found).thread_ts # Val(handlers[h].ts)
                                    /\ slackThreads[Val(found).thread_ts] = s
              IN /\ redis'.thread[Val(handlers[h].ts)] = Null
                 /\ Gone(getSession(redis', s))
                 /\ Gone(getSessionByThread(redis', Val(handlers[h].ts)))
                 /\ Gone(getSessionByThread(redis', old))
      ]_vars

\* A thread whose Start completed and whose session has since been deleted
\* by a Close: both keys are gone.
C4_Witness ==
    \E t \in Created :
        /\ StartDone(t)
        /\ \A h \in Slots : handlers[h].kind = "idle"
        /\ redis.thread[t] = Null
        /\ redis.session[slackThreads[t]] = Null

\* ---------------------------------------------------------------------
\* C5 - deleteSession is idempotent
\* ---------------------------------------------------------------------

\* C5: in every reachable state and for every session id and thread id, a
\* second deleteSession right after a first one throws nothing and leaves
\* the store, the timer table and the timer handles as the first call left
\* them; deleting a session of which nothing exists throws nothing and
\* changes nothing.
C5_DeleteSessionIdempotent ==
    \A s \in Sessions, t \in Threads :
        LET once == deleteSession(redis, pendingTimers, timers, s, t)
            twice == deleteSession(once.redis, once.pendingTimers, once.timers, s, t)
        IN /\ ~once.threw
           /\ ~twice.threw
           /\ twice.redis = once.redis
           /\ twice.pendingTimers = once.pendingTimers
           /\ twice.timers = once.timers
           /\ ( ( /\ redis.session[s] = Null
                  /\ redis.thread[t] = Null
                  /\ pendingTimers[s] = Null )
                => /\ once.redis = redis
                   /\ once.pendingTimers = pendingTimers
                   /\ once.timers = timers )

\* A Close has run deleteSession on a session whose timers were pending:
\* keys and timer entry are gone, the handles are cleared, and a second call
\* would find nothing.
C5_Witness ==
    \E t \in Created :
        /\ StartDone(t)
        /\ \A h \in Slots : handlers[h].kind = "idle"
        /\ redis.thread[t] = Null
        /\ redis.session[slackThreads[t]] = Null
        /\ pendingTimers[slackThreads[t]] = Null
        /\ \E i \in DOMAIN timers : /\ timers[i].sid = slackThreads[t]
                                    /\ timers[i].status = "cleared"

\* ---------------------------------------------------------------------
\* C6 - the thread id of a session record
\* ---------------------------------------------------------------------

\* C6 as stated: while the record of session s exists its thread id never
\* changes, whatever events arrive.
C6_ThreadIdNeverChanges ==
    [][\A s \in Sessions :
          (getSession(redis, s) # Null /\ getSession(redis', s) # Null)
          => Val(getSession(redis', s)).thread_ts = Val(getSession(redis, s)).thread_ts
      ]_vars

\* C6 amended: the thread id of an existing record changes only in the
\* saveSession write of a further Start for the same session id, which
\* replaces the record by one holding that Start's own new thread; no other
\* event changes it.
C6_ThreadIdChangesOnlyByStart ==
    [][\A s \in Sessions :
          ( /\ getSession(redis, s) # Null /\ getSession(redis', s) # Null
            /\ Val(getSession(redis', s)).thread_ts # Val(getSession(redis, s)).thread_ts )
          => \E h \in Slots :
                 /\ handlers[h].kind = "start"
                 /\ handlers[h].pc = "save_session"
                 /\ handlers'[h].pc = "save_thread"
                 /\ handlers[h].sid = Some(s)
                 /\ Some(Val(getSession(redis', s)).thread_ts) = handlers[h].ts
      ]_vars

\* The record of a session holds the thread of a second Start although an
\* earlier Start for it had completed with another thread.
C6_Witness ==
    \E t1 \in Created, t2 \in Created :
        /\ t1 < t2
        /\ slackThreads[t1] = slackThreads[t2]
        /\ StartDone(t1)
        /\ redis.thread[t1] = Some(slackThreads[t1])
        /\ getSession(redis, slackThreads[t2]) =
               Some(NewSessionObject(slackThreads[t2], t2, "Unknown"))

\* ---------------------------------------------------------------------
\* C7 .. C10 - escalation timers
\* ---------------------------------------------------------------------

\* Handles of session s.
HandlesOf(s) == {i \in DOMAIN timers : timers[i].sid = s}

\* The callback of handle i has been invoked.
Fired(i) == timers[i].status \notin {"pending", "cleared"}

\* scheduleAutoResponses creates handles in pairs (j, j + 1), j odd; both
\* handles of the pair starting at j were cleared before either fired.
CancelledBeforeFire(j) ==
    /\ j \in DOMAIN timers /\ j % 2 = 1
    /\ timers[j].status = "cleared"
    /\ timers[j + 1].status = "cleared"

\* C7: every handle of a session that can still fire belongs to the one
\* pair recorded in pendingTimers for that session, so that one cancel
\* clears every pending reminder of the session.
C7_OneLivePairPerSession ==
    \A s \in Sessions :
        \A i \in HandlesOf(s) :
            timers[i].status = "pending"
            => /\ pendingTimers[s] # Null
               /\ i \in {Val(pendingTimers[s]).threeMin, Val(pendingTimers[s]).tenMin}

\* C8: once timers of a session were scheduled and cancelled before either
\* delay elapsed, no busy message of a handle that existed at that cancel is
\* sent for the session, neither to the customer nor into the thread; and a
\* cleared handle stays cleared.
C8_NoBusyAfterCancel ==
    [][\A i \in DOMAIN timers :
          /\ ( \/ ~timers[i].sentWhatsApp /\ timers'[i].sentWhatsApp
               \/ ~timers[i].sentSlack /\ timers'[i].sentSlack )
             => ~\E j \in DOMAIN timers :
                    /\ j > i
                    /\ timers[j].sid = timers[i].sid
                    /\ CancelledBeforeFire(j)
          /\ timers[i].status = "cleared" => timers'[i].status = "cleared"
      ]_vars

\* The step in which handleMessage of handler h, having found the session,
\* runs cancelAutoResponses.
ReplyHandled(h) ==
    /\ handlers[h].kind = "message"
    /\ handlers[h].pc = "get_session"
    /\ handlers'[h].pc = "send"

\* C9: when an agent reply is handled while no reminder of the session is
\* due yet, the session has no pending timer left afterwards, so that
\* neither busy message can be sent.
C9_ReplyCancelsEveryTimer ==
    [][\A h \in Slots :
          ( /\ ReplyHandled(h)
            /\ \A i \in HandlesOf(Val(handlers[h].sid)) :
                   \/ timers[i].status = "cleared"
                   \/ timers[i].status = "pending" /\ timers[i].remaining > 0 )
          => \A i \in HandlesOf(Val(handlers[h].sid)) :
                 timers'[i].status # "pending"
      ]_vars

\* Session s is open, was never closed and none of its timers was cancelled.
OpenAndNeverCancelled(s) ==
    /\ getSession(redis, s) # Null
    /\ \A t \in Created : (slackThreads[t] = s /\ StartDone(t))
                          => redis.thread[t] # Null
    /\ \A h \in Slots : handlers[h].kind # "close"
    /\ \A i \in HandlesOf(s) : timers[i].status # "cleared"

FiredWith(s, message) ==
    {i \in HandlesOf(s) : Fired(i) /\ timers[i].message = message}

\* C10: for a session that stays open and whose timers are never cancelled,
\* the 3-minute reminder fires at most once, the 10-minute reminder fires at
\* most once, and the 10-minute one only after the 3-minute one.
C10_EachReminderFiresOnce ==
    \A s \in Sessions :
        OpenAndNeverCancelled(s)
        => /\ Cardinality(FiredWith(s, "busyMessage3Min")) <= 1
           /\ Cardinality(FiredWith(s, "busyMessage10Min")) <= 1
           /\ FiredWith(s, "busyMessage10Min") # {}
                  => FiredWith(s, "busyMessage3Min") # {}

\* ---------------------------------------------------------------------
\* C11 - no busy notification after Close
\* ---------------------------------------------------------------------

\* A Close handler that found session s has finished: the reverse entry of
\* a thread that a completed Start opened for s has been deleted.
CloseFinished(s) ==
    \E t \in Created : /\ slackThreads[t] = s
                       /\ StartDone(t)
                       /\ redis.thread[t] = Null

\* The step in which the run of handle i sends its busy message to the
\* customer or posts its busy notice into the thread.
BusySent(i) ==
    \/ ~timers[i].sentWhatsApp /\ timers'[i].sentWhatsApp
    \/ ~timers[i].sentSlack /\ timers'[i].sentSlack

\* The step in which the close handler h, its collaborator calls done,
\* enters deleteSession and runs cancelAutoResponses.
CloseCancels(h) ==
    /\ handlers[h].kind = "close"
    /\ handlers[h].pc = "update"
    /\ handlers'[h].pc = "del_session"

\* C11 as stated: once the Close handler for session s has finished, no busy
\* notification for s is sent to the customer or posted into the thread.
C11_NoBusyAfterClose ==
    [][\A i \in DOMAIN timers :
          BusySent(i) => ~CloseFinished(timers[i].sid)
      ]_vars

\* C11 amended: Close cancels the pair recorded in the timer table; a timer
\* task that loads the session while its record is absent does nothing, then
\* and ever after; a busy notification is sent only by a task that holds a
\* record it had loaded (before the delete, or after a further Start saved
\* the session again).
C11_NoBusyFromLateLookup ==
    [][/\ \A i \in DOMAIN timers :
            /\ ( /\ timers[i].status = "get_session"
                 /\ timers'[i].status # "get_session"
                 /\ getSession(redis, timers[i].sid) = Null )
               => /\ timers'[i].status = "done"
                  /\ ~timers'[i].sentWhatsApp
                  /\ ~timers'[i].sentSlack
            /\ timers[i].status \in {"done", "cleared"} => timers'[i] = timers[i]
            /\ BusySent(i) => timers[i].session # Null
       /\ \A h \in Slots :
            CloseCancels(h) =>
                LET s == Val(handlers[h].session).session_id
                IN /\ pendingTimers'[s] = Null
                   /\ pendingTimers[s] # Null =>
                          /\ timers'[Val(pendingTimers[s]).threeMin].status # "pending"
                          /\ timers'[Val(pendingTimers[s]).tenMin].status # "pending"
      ]_vars

\* A reminder of a session fired, and the Close of that session finished
\* before the task looked the session up: the record is absent.
C11_Witness ==
    \E i \in DOMAIN timers :
        /\ timers[i].status = "get_session"
        /\ CloseFinished(timers[i].sid)
        /\ getSession(redis, timers[i].sid) = Null
        /\ \A h \in Slots : handlers[h].kind = "idle"

\* ---------------------------------------------------------------------
\* C12 - what a Close leaves behind
\* ---------------------------------------------------------------------

\* C12: when a Close on a thread linked to a live session s reaches its
\* end, the disconnect signal for s was sent to the AI platform, the closure
\* notice was posted in the clicked thread, the record of s, the reverse
\* entry of the clicked thread and the reverse entry of the record's thread
\* are removed, and no timer of s is left pending.
C12_CloseEndsClean ==
    [][\A h \in Slots :
          DeleteSessionReturns(h) =>
              LET s == Val(handlers[h].session).session_id
                  t == Val(handlers[h].ts)
              IN /\ \E k \in DOMAIN handlers[h].calls :
                        handlers[h].calls[k] = Disconnect(s)
                 /\ \E k \in DOMAIN handlers[h].calls :
                        handlers[h].calls[k] = ThreadPost(t, "ticketClosed")
                 /\ redis'.session[s] = Null
                 /\ redis'.thread[t] = Null
                 /\ redis'.thread[Val(handlers[h].session).thread_ts] = Null
                 /\ \A i \in HandlesOf(s) : timers'[i].status # "pending"
      ]_vars

\* ---------------------------------------------------------------------
\* C13 - Close on an absent session
\* ---------------------------------------------------------------------

\* Handler h takes a step.
Steps(h) == handlers'[h] # handlers[h]

\* The lookup the close handler h is waiting for finds no session: the
\* reverse entry of the clicked thread is missing, or the record it points
\* to is.
CloseFindsNothing(h) ==
    /\ handlers[h].kind = "close"
    /\ \/ /\ handlers[h].pc = "get_thread"
          /\ redis.thread[Val(handlers[h].ts)] = Null
       \/ /\ handlers[h].pc = "get_session"
          /\ getSession(redis, Val(handlers[h].sid)) = Null

\* C13: a Close whose lookup finds no session (already closed, or never
\* saved) ends there: it has issued no disconnect and no closure notice and
\* it changes no stored state.  A Close that ran to its end leaves the
\* clicked thread without a session, and the thread stays so, so that a
\* second Close delivered after the first is such a no-op and leaves the
\* state the first one left.
C13_CloseAbsentIsNoOp ==
    [][/\ \A h \in Slots :
            /\ (CloseFindsNothing(h) /\ Steps(h))
               => /\ handlers[h].calls = <<>>
                  /\ handlers'[h] = Idle
                  /\ UNCHANGED <<redis, pendingTimers, timers, slackThreads>>
            /\ DeleteSessionReturns(h)
               => getSessionByThread(redis', Val(handlers[h].ts)) = Null
       /\ \A t \in Created :
            (StartDone(t) /\ redis.thread[t] = Null) => redis'.thread[t] = Null
      ]_vars

\* A Close is waiting for its lookup on a thread whose session an earlier
\* Close has already deleted.
C13_Witness ==
    \E h \in Slots :
        /\ CloseFindsNothing(h)
        /\ StartDone(Val(handlers[h].ts))
        /\ \A g \in Slots : g # h => handlers[g].kind = "idle"
        /\ redis.session[slackThreads[Val(handlers[h].ts)]] = Null

\* ---------------------------------------------------------------------
\* C14 - inbound message for an unknown session
\* ---------------------------------------------------------------------

\* C14: an /inbound request whose getSession finds no record is answered
\* with HTTP 200 and status 'warning'; it has posted nothing to any thread,
\* raised no error and changed no stored state, and nothing but the
\* delivery of that response follows.
C14_InboundUnknownSession ==
    [][\A h \in Slots :
          /\ ( /\ handlers[h].kind = "inbound"
               /\ handlers[h].pc = "get_session"
               /\ getSession(redis, Val(handlers[h].sid)) = Null
               /\ Steps(h) )
             => /\ handlers'[h].pc = "responded"
                /\ handlers'[h].res = Some(ResWarning)
                /\ handlers'[h].calls = <<>>
                /\ ~handlers'[h].caught
                /\ UNCHANGED <<redis, pendingTimers, timers, slackThreads>>
          /\ ( /\ handlers[h].kind = "inbound"
               /\ handlers[h].res = Some(ResWarning)
               /\ Steps(h) )
             => /\ handlers'[h] = Idle
                /\ UNCHANGED <<redis, pendingTimers, timers, slackThreads>>
      ]_vars

\* An /inbound for a session id without a record has been answered with the
\* warning while another session is open.
C14_Witness ==
    \E h \in Slots :
        /\ handlers[h].kind = "inbound"
        /\ handlers[h].res = Some(ResWarning)
        /\ getSession(redis, Val(handlers[h].sid)) = Null
        /\ \E s \in Sessions : getSession(redis, s) # Null

\* ---------------------------------------------------------------------
\* C15 - collaborator failures in /start and /inbound
\* ---------------------------------------------------------------------

\* C15: a /start or /inbound handler in which a collaborator call failed
\* has answered the AI platform with HTTP 200 carrying a warning or error
\* body, never with a failure status.
C15_FailureAnswered200 ==
    \A h \in Slots :
        (handlers[h].kind \in {"start", "inbound"} /\ handlers[h].caught)
        => /\ handlers[h].res # Null
           /\ Val(handlers[h].res).code = 200
           /\ Val(handlers[h].res).status \in {"warning", "error"}

\* ---------------------------------------------------------------------
\* C16 - one outbound message per agent reply
\* ---------------------------------------------------------------------

\* The outbound posts handler h has issued.
OutboundCalls(h) ==
    {k \in DOMAIN handlers[h].calls : handlers[h].calls[k].api = "outbound"}

\* handleMessage of handler h handles a human text reply and has resolved
\* its thread to a session.
ReplyResolved(h) ==
    /\ handlers[h].kind = "message"
    /\ Val(handlers[h].event) \in AgentReplies
    /\ handlers[h].session # Null

\* C16: a handler of a message event issues an outbound post only for a
\* human text reply whose thread it resolved to a session, never more than
\* one, and that one carries the text of the event and is addressed to the
\* session the thread was opened for; once the thread of a text reply is
\* resolved, exactly one such post has been issued.
C16_OneOutboundPerReply ==
    \A h \in Slots :
        handlers[h].kind = "message" =>
            /\ Cardinality(OutboundCalls(h)) <= 1
            /\ \A k \in OutboundCalls(h) :
                   /\ ReplyResolved(h)
                   /\ Val(handlers[h].session).session_id =
                          slackThreads[Val(handlers[h].ts)]
                   /\ handlers[h].calls[k] =
                          Outbound(slackThreads[Val(handlers[h].ts)],
                                   Val(handlers[h].event).text)
            /\ ReplyResolved(h) => Cardinality(OutboundCalls(h)) = 1

\* A text reply in the first thread of a session that has two threads was
\* forwarded, and handleMessage has returned.
C16_Witness ==
    \E h \in Slots :
        /\ ReplyResolved(h)
        /\ handlers[h].pc = "return"
        /\ ~handlers[h].caught
        /\ Cardinality(OutboundCalls(h)) = 1
        /\ Val(handlers[h].session).thread_ts # Val(handlers[h].ts)

\* ---------------------------------------------------------------------
\* C17 - bot messages are ignored
\* ---------------------------------------------------------------------

\* The event carries the bot-originator marker.
CarriesBotMarker(event) == event.bot_id \/ event.subtype = "bot_message"

\* C17: a message event carrying the bot-originator marker is ignored in
\* every state: its handler is handleMessage, never the broadcast flow, and
\* it has returned without looking anything up; it issues no call to the AI
\* platform or to Slack, cancels no timer and changes no stored state,
\* neither when it arrives nor when it ends.
C17_BotMessagesIgnored ==
    [][\A h \in Slots :
          /\ (handlers'[h].event # Null /\ CarriesBotMarker(Val(handlers'[h].event)))
             => /\ handlers'[h].kind = "message"
                /\ handlers'[h].pc = "return"
                /\ handlers'[h].calls = <<>>
                /\ handlers'[h].session = Null
                /\ ~handlers'[h].caught
                /\ Steps(h) => UNCHANGED <<redis, pendingTimers, timers, slackThreads>>
          /\ ( /\ handlers[h].event # Null
               /\ CarriesBotMarker(Val(handlers[h].event))
               /\ Steps(h) )
             => /\ handlers'[h] = Idle
                /\ UNCHANGED <<redis, pendingTimers, timers, slackThreads>>
      ]_vars

\* A bot-marked reply was delivered in the thread of an open session whose
\* timers are pending.
C17_Witness ==
    \E h \in Slots :
        /\ handlers[h].event # Null
        /\ CarriesBotMarker(Val(handlers[h].event))
        /\ Val(handlers[h].event).thread_ts # Null
        /\ LET session == getSessionByThread(redis, Val(Val(handlers[h].event).thread_ts))
           IN /\ session # Null
              /\ pendingTimers[Val(session).session_id] # Null

\* ---------------------------------------------------------------------
\* C18 - agent message in a thread without a session
\* ---------------------------------------------------------------------

\* The lookup handleMessage of handler h is waiting for finds no session:
\* the reverse entry of the thread is missing, or the record it points to.
MessageFindsNothing(h) ==
    /\ handlers[h].kind = "message"
    /\ \/ /\ handlers[h].pc = "get_thread"
          /\ redis.thread[Val(handlers[h].ts)] = Null
       \/ /\ handlers[h].pc = "get_session"
          /\ getSession(redis, Val(handlers[h].sid)) = Null

\* C18: handleMessage whose lookup finds no session returns there: it has
\* issued nothing to the AI platform, cancels no timer, changes no stored
\* state and raises no error, and nothing but the return of the event
\* handler follows.
C18_UnresolvedReplyIgnored ==
    [][\A h \in Slots :
          /\ (MessageFindsNothing(h) /\ Steps(h))
             => /\ handlers'[h].pc = "return"
                /\ handlers'[h].calls = <<>>
                /\ handlers'[h].session = Null
                /\ ~handlers'[h].caught
                /\ UNCHANGED <<redis, pendingTimers, timers, slackThreads>>
          /\ ( /\ handlers[h].kind = "message"
               /\ handlers[h].pc = "return"
               /\ handlers[h].session = Null
               /\ Steps(h) )
             => /\ handlers'[h] = Idle
                /\ UNCHANGED <<redis, pendingTimers, timers, slackThreads>>
      ]_vars

\* A reply arrived in a thread whose reverse entry is left but whose session
\* record is gone; handleMessage has read the pointer and waits for the
\* record.
C18_Witness ==
    \E h \in Slots :
        /\ handlers[h].kind = "message"
        /\ handlers[h].pc = "get_session"
        /\ getSession(redis, Val(handlers[h].sid)) = Null
        /\ \A g \in Slots : g # h => handlers[g].kind = "idle"

\* ---------------------------------------------------------------------
\* C19 - a reply that could not be forwarded
\* ---------------------------------------------------------------------

\* C19: when the outbound post of an agent's reply has failed, the handler
\* has posted a failure notice into the thread of the reply, and it has
\* issued the outbound post once only (no retry).
C19_ForwardFailureSurfaced ==
    \A h \in Slots :
        (handlers[h].kind = "message" /\ handlers[h].caught)
        => /\ \E k \in DOMAIN handlers[h].calls :
                  /\ handlers[h].calls[k].api = "thread_post"
                  /\ handlers[h].calls[k].ts = handlers[h].ts
           /\ Cardinality(OutboundCalls(h)) = 1

\* ---------------------------------------------------------------------
\* C20 - a reminder that fails to send
\* ---------------------------------------------------------------------

\* The step in which a post of the sendBusyMessage run of handle i fails
\* and the run ends in its catch.
BusyFailed(i) ==
    /\ timers[i].status \in {"send", "notify"}
    /\ timers'[i].status = "done"
    /\ ~timers'[i].sentSlack

\* C20: when a post of one reminder fails, the failure is caught: the run
\* ends, nothing else changes -- every other handle, the other reminder of
\* the session included, keeps its state and its remaining delay, the timer
\* table and the store are untouched -- and a run that has ended never sends
\* again (no retry).
C20_ReminderFailureIsolated ==
    [][\A i \in DOMAIN timers :
          /\ BusyFailed(i)
             => /\ \A j \in DOMAIN timers : j # i => timers'[j] = timers[j]
                /\ timers'[i].sentWhatsApp = timers[i].sentWhatsApp
                /\ UNCHANGED <<redis, pendingTimers, slackThreads, handlers>>
          /\ timers[i].status = "done" => timers'[i] = timers[i]
      ]_vars

\* The 3-minute reminder of a session failed at its Slack notice, and the
\* 10-minute reminder of the same pair was sent afterwards.
C20_Witness ==
    \E i \in DOMAIN timers :
        /\ i % 2 = 1
        /\ timers[i].status = "done"
        /\ timers[i].sentWhatsApp /\ ~timers[i].sentSlack
        /\ timers[i + 1].sid = timers[i].sid
        /\ timers[i + 1].sentWhatsApp

\* ---------------------------------------------------------------------
\* C21 .. C23 - contacts and roles
\* ---------------------------------------------------------------------

\* A contact as listAll returns it, or Null when none is stored.
ContactOf(r, phone) ==
    IF r.contact[phone] = Null THEN Null
    ELSE Some(ReadContact(Val(r.contact[phone])))

\* Handler h performs the write of a save_contact_modal submission.
SavesContact(h) ==
    /\ handlers[h].kind = "save_contact" /\ handlers[h].pc = "set_contact"
    /\ handlers'[h].pc = "confirm"

\* C21: saving a contact name for a phone that already has a contact
\* overwrites the name and keeps that contact's roles; for a phone with no
\* contact it creates the contact; no other contact changes.
C21_SaveNameKeepsRoles ==
    [][\A h \in Slots : SavesContact(h) =>
          LET in == Val(handlers[h].in)
              before == ContactOf(redis, in.phone)
              after == ContactOf(redis', in.phone)
          IN /\ after # Null
             /\ Val(after).name = in.name
             /\ Val(after).phone = in.phone
             /\ before # Null => Val(after).roles = Val(before).roles
             /\ \A p \in Phones \ {in.phone} : redis'.contact[p] = redis.contact[p]
             /\ redis'.roles = redis.roles]_vars

\* Handler h has finished the writes of remove_role.
RemoveRoleCompleted(h) ==
    /\ handlers[h].kind = "remove_role"
    /\ handlers[h].pc \in {"slack", "return"}

\* C22: once remove_role has finished its writes for role r, with no other
\* handler interleaved, r is not in the roles set and no stored contact, read
\* as getAllContacts reads it, has r among its roles.
C22_RemovedRoleIsGone ==
    \A h \in Slots : RemoveRoleCompleted(h) =>
        LET r == Val(handlers[h].in).role
        IN /\ r \notin redis.roles
           /\ \A p \in Phones :
                  ContactOf(redis, p) # Null => r \notin Val(Val(ContactOf(redis, p)).roles)

\* A removal has finished whose role was held by both contacts, by one of
\* them together with another role, while another role stays registered.
C22_Witness ==
    \E h \in Slots :
        /\ RemoveRoleCompleted(h)
        /\ LET read == Val(handlers[h].work).contacts
               r == Val(handlers[h].in).role
           IN /\ Len(read) = 2
              /\ \A i \in DOMAIN read : r \in Val(read[i].roles)
              /\ \E i \in DOMAIN read : Val(read[i].roles) # {r}
              /\ redis.roles # {}

\* C23: an edit_contact_roles_modal submission for a phone without a contact
\* changes nothing in the store and creates no contact; for a stored contact
\* its write replaces the roles with the submitted ones and keeps name and
\* phone, and no other key changes.
C23_SetRolesOnlyOnExisting ==
    [][\A h \in Slots : (handlers[h].kind = "set_roles" /\ Steps(h)) =>
          LET in == Val(handlers[h].in)
              before == ContactOf(redis, in.phone)
              after == ContactOf(redis', in.phone)
          IN /\ before = Null =>
                    /\ redis' = redis
                    /\ handlers'[h].pc # "set_contact"
             /\ before # Null =>
                    /\ after # Null
                    /\ Val(after).name = Val(before).name
                    /\ Val(after).phone = Val(before).phone
                    /\ handlers[h].pc = "set_contact" =>
                           Val(after).roles = Some(in.roles)
                    /\ handlers[h].pc # "set_contact" => redis' = redis
                    /\ redis' = [redis EXCEPT !.contact[in.phone] = redis'.contact[in.phone]]
         ]_vars

\* A submission with roles selected has been handled for a phone that has no
\* contact: the handler went from the lookup to the Home tab refresh.
C23_Witness ==
    \E h \in Slots :
        /\ handlers[h].kind = "set_roles" /\ handlers[h].pc = "return"
        /\ ~handlers[h].caught
        /\ Val(handlers[h].in).roles # {}
        /\ handlers[h].work = Null
        /\ redis.contact[Val(handlers[h].in).phone] = Null
        /\ \E p \in Phones : redis.contact[p] # Null

\* ---------------------------------------------------------------------
\* C24 .. C27 - assignments
\* ---------------------------------------------------------------------

Range(seq) == {seq[i] : i \in DOMAIN seq}

\* The user ids resolveUsers returned to handler h.
ResolvedIds(h) == Range(Val(handlers[h].work).ids)

\* Handler h answers with the given status in this step.
Answers(h, status) ==
    /\ handlers[h].res = Null
    /\ handlers'[h].res = Some(AssignResponse(status))

\* C24: every add of an assign command is a set union on the addressed pair
\* and every targeted remove a set difference, and no other pair changes; by
\* the time the command answers, all resolved users are in the entry (add)
\* or none of them is (remove); adding a user already present changes
\* nothing.
C24_AddIsUnionRemoveIsDifference ==
    [][\A h \in Slots : (handlers[h].kind = "assign" /\ Steps(h)) =>
          LET key == CommandKey(Val(handlers[h].in))
              todo == Val(handlers[h].work).todo
          IN /\ handlers[h].pc = "sadd" =>
                    /\ redis' = [redis EXCEPT !.assign[key] = @ \cup {Head(todo)}]
                    /\ Head(todo) \in redis.assign[key] => redis' = redis
             /\ handlers[h].pc = "srem" =>
                    redis' = [redis EXCEPT !.assign[key] = @ \ {Head(todo)}]
             /\ handlers[h].pc \notin {"sadd", "srem", "del"} => redis' = redis
             /\ Answers(h, "assigned") =>
                    /\ ResolvedIds(h) # {}
                    /\ ResolvedIds(h) \subseteq redis'.assign[key]
             /\ Answers(h, "removed") =>
                    /\ ResolvedIds(h) # {}
                    /\ ResolvedIds(h) \cap redis'.assign[key] = {}
         ]_vars

\* "/assign clear academy registration <@U1>" has been answered and has
\* left U2, assigned together with U1, as the pair's only responder, while
\* another pair keeps its own.
C24_Witness ==
    \E h \in Slots :
        /\ handlers[h].kind = "assign" /\ handlers[h].pc = "responded"
        /\ handlers[h].res = Some(AssignResponse("removed"))
        /\ CommandKey(Val(handlers[h].in)) = <<"academy", "registration">>
        /\ ResolvedIds(h) = {"U1"}
        /\ redis.assign[<<"academy", "registration">>] = {"U2"}
        /\ redis.assign[<<"academy", "payment">>] = {"U1", "U2"}

\* C25: a clear command for which no user was resolved deletes the whole
\* entry of its pair; one with resolved users never deletes it and removes
\* only those users from it; no other pair changes.
C25_ClearAllOrOnlyNamed ==
    [][\A h \in Slots :
          ( /\ handlers[h].kind = "assign" /\ Steps(h)
            /\ Val(handlers[h].in).command = "clear"
            /\ handlers[h].work # Null ) =>
          LET key == CommandKey(Val(handlers[h].in))
          IN /\ ResolvedIds(h) = {} =>
                    /\ handlers[h].pc \in {"del", "responded"}
                    /\ handlers[h].pc = "del" =>
                           /\ redis' = [redis EXCEPT !.assign[key] = {}]
                           /\ Answers(h, "cleared")
             /\ ResolvedIds(h) # {} =>
                    /\ handlers[h].pc \in {"srem", "responded"}
                    /\ redis.assign[key] \ redis'.assign[key] \subseteq ResolvedIds(h)
                    /\ redis' = [redis EXCEPT !.assign[key] = redis'.assign[key]]
                    /\ redis'.assign[key] \subseteq redis.assign[key]
                    /\ Answers(h, "removed") =>
                           ResolvedIds(h) \cap redis'.assign[key] = {}
         ]_vars

\* "/assign clear daycare payment" without a mention has been answered and
\* has emptied an entry that held two responders, leaving another entry.
C25_WitnessCleared ==
    \E h \in Slots :
        /\ handlers[h].kind = "assign" /\ handlers[h].pc = "responded"
        /\ handlers[h].res = Some(AssignResponse("cleared"))
        /\ Val(handlers[h].in).mentions = <<>>
        /\ redis.assign[CommandKey(Val(handlers[h].in))] = {}
        /\ \E k \in AssignKeys : redis.assign[k] = {"U1", "U2"}

\* The responders assigned to exactly the pair (category, subcategory).
AssignedTo(r, category, subcategory) ==
    {u \in Users : \E k \in AssignKeys :
        /\ k[1] = category /\ k[2] = subcategory
        /\ u \in r.assign[k]}

\* Handler h, serving a Start, finishes its lookups in this step.
LookupsDone(h) ==
    /\ handlers'[h].kind = "start"
    /\ handlers[h].pc # "post" /\ handlers'[h].pc = "post"

\* C26: the responders a Start finds are those assigned to exactly its
\* (category, subcategory) pair when the lookup answers, and none when a tag
\* is missing; responders of a pair that shares only one tag are not found.
C26_ExactPairLookup ==
    [][\A h \in Slots : LookupsDone(h) =>
          LET params == Val(handlers'[h].in)
              found == Val(handlers'[h].work).assignees
          IN IF params.school = "" \/ params.intent = ""
             THEN found = {}
             ELSE found = AssignedTo(redis, params.school, params.intent)]_vars

\* A Start tagged (academy, registration) has found U1 alone while U2 is
\* assigned to (academy, payment) and to (daycare, registration).
C26_Witness ==
    \E h \in Slots :
        /\ handlers[h].kind = "start" /\ handlers[h].pc = "post"
        /\ Val(handlers[h].in).school = "academy"
        /\ Val(handlers[h].in).intent = "registration"
        /\ Val(handlers[h].work).assignees = {"U1"}
        /\ redis.assign[<<"academy", "payment">>] = {"U2"}
        /\ redis.assign[<<"daycare", "registration">>] = {"U2"}

\* Handler h has answered a Start with success.
StartSucceeded(h) ==
    /\ handlers[h].kind = "start" /\ handlers[h].pc = "responded"
    /\ handlers[h].res = Some(ResSuccess)

\* C27: when a Start has answered with success, the session stored for its
\* id carries the ts of the thread it opened, and the thread-opening message
\* mentions exactly the responders assigned to its pair (no command being
\* served in between), and nobody when none is assigned.
C27_StartMentionsAssignees ==
    \A h \in Slots : StartSucceeded(h) =>
        LET params == Val(handlers[h].in)
            message == Val(Val(handlers[h].work).message)
            session == getSession(redis, Val(handlers[h].sid))
        IN /\ session # Null
           /\ Some(Val(session).thread_ts) = handlers[h].ts
           /\ slackThreads[Val(handlers[h].ts)] = Val(handlers[h].sid)
           /\ message.session_id = Val(handlers[h].sid)
           /\ message.mentions = AssignedTo(redis, params.school, params.intent)

\* The Start of "abc-123" tagged (academy, registration) has succeeded with
\* U1 and U2 assigned: its message mentions both.
C27_Witness ==
    \E h \in Slots :
        /\ StartSucceeded(h)
        /\ handlers[h].sid = Some("abc-123")
        /\ Val(handlers[h].in).school = "academy"
        /\ Val(handlers[h].in).intent = "registration"
        /\ Val(Val(handlers[h].work).message).mentions = {"U1", "U2"}
        /\ redis.session["abc-123"] # Null

\* ---------------------------------------------------------------------
\* C28 - the customer's display name
\* ---------------------------------------------------------------------

\* C28: when a Start has answered with success, the stored session's
\* profile_name and the name in the thread-opening message are the name of
\* the contact saved for the Start's phone if there is one, and otherwise
\* the profile name the platform sent ('Unknown' when it sent none).
C28_SavedNameWins ==
    \A h \in Slots : StartSucceeded(h) =>
        LET params == Val(handlers[h].in)
            session == getSession(redis, Val(handlers[h].sid))
            saved == IF params.phone = "" THEN Null ELSE ContactOf(redis, params.phone)
            expected == IF saved # Null THEN Val(saved).name
                        ELSE IF params.profile # "" THEN params.profile
                        ELSE "Unknown"
        IN /\ session # Null
           /\ Val(session).profile_name = expected
           /\ Val(Val(handlers[h].work).message).name = expected

\* A Start that came with a profile name has succeeded for a phone with a
\* saved contact of another name, which is the session's display name.
C28_Witness ==
    \E h \in Slots :
        /\ StartSucceeded(h)
        /\ Val(handlers[h].in).profile = "Pat"
        /\ Val(handlers[h].in).phone # ""
        /\ redis.contact[Val(handlers[h].in).phone] # Null
        /\ Val(getSession(redis, Val(handlers[h].sid))).profile_name \in ContactNames

\* ---------------------------------------------------------------------
\* C29, C30 - broadcast
\* ---------------------------------------------------------------------

\* Handler h has run sendBroadcast with at least one matched contact and
\* has returned.
BroadcastOver(h) ==
    /\ handlers[h].kind = "send_broadcast" /\ handlers[h].pc = "return"
    /\ handlers[h].work # Null
    /\ Val(handlers[h].work).matched # <<>>

\* The number of sends handler h issued to the phone.
SendsTo(h, phone) ==
    Cardinality({j \in DOMAIN handlers[h].calls :
                    handlers[h].calls[j] = WhatsAppSend(phone)})

\* The number of outcome notices of handler h for the phone that were
\* posted in the thread.
NoticesFor(h, phone) ==
    LET notices == Val(handlers[h].work).notices
    IN Cardinality({j \in DOMAIN notices : notices[j].sid = Some(phone)})

\* C29: whatever fails for one contact, a broadcast that has returned has
\* attempted every matched contact, has posted one outcome notice per
\* matched contact in the thread, and has run sendBroadcast to its end.
C29_BroadcastSurvivesFailure ==
    \A h \in Slots : BroadcastOver(h) =>
        LET matched == Val(handlers[h].work).matched
        IN /\ \A i \in DOMAIN matched :
                  /\ SendsTo(h, matched[i].phone) = 1
                  /\ NoticesFor(h, matched[i].phone) = 1
           /\ Val(handlers[h].work).looped

\* The phones whose stored contact holds at least one of the roles.
HoldersOf(r, roles) ==
    {p \in Phones : /\ ContactOf(r, p) # Null
                    /\ Val(Val(ContactOf(r, p)).roles) \cap roles # {}}

\* C30: a broadcast never sends to a contact that holds none of the
\* selected roles and never sends twice to one contact; once sendBroadcast
\* has run to its end, it has sent exactly once to every contact that holds
\* at least one of the selected roles.
C30_BroadcastTargetsRoleHolders ==
    \A h \in Slots : handlers[h].kind = "send_broadcast" =>
        LET holders == HoldersOf(redis, Val(handlers[h].in).roles)
        IN /\ \A p \in Phones : SendsTo(h, p) <= 1
           /\ \A p \in Phones \ holders : SendsTo(h, p) = 0
           /\ (handlers[h].work # Null /\ Val(handlers[h].work).looped) =>
                  \A p \in holders : SendsTo(h, p) = 1

\* A broadcast to both roles has run to its end: the contact that holds
\* both was sent the message once, the stored contact that holds no role
\* was sent nothing.
C30_Witness ==
    \E h \in Slots :
        /\ handlers[h].kind = "send_broadcast"
        /\ handlers[h].work # Null /\ Val(handlers[h].work).looped
        /\ Val(handlers[h].in).roles = Roles
        /\ \E p \in Phones, q \in Phones :
               /\ ContactOf(redis, p) # Null /\ ContactOf(redis, q) # Null
               /\ Val(Val(ContactOf(redis, p)).roles) = Roles
               /\ Val(Val(ContactOf(redis, q)).roles) = {}
               /\ SendsTo(h, p) = 1 /\ SendsTo(h, q) = 0

\* ---------------------------------------------------------------------
\* C31 - the count of a broadcast
\* ---------------------------------------------------------------------

\* The result updates handler h has issued.
ResultUpdates(h) ==
    {j \in DOMAIN handlers[h].calls :
        /\ handlers[h].calls[j].api = "picker_update"
        /\ handlers[h].calls[j].text \in {"broadcastSent", "broadcastNoContacts"}}

\* The contacts the message of handler h was sent to: those whose send the
\* messaging API accepted, for which the "sent" notice was issued.
SentTo(h) ==
    {handlers[h].calls[j].sid : j \in {i \in DOMAIN handlers[h].calls :
        /\ handlers[h].calls[i].api = "outcome_notice"
        /\ handlers[h].calls[i].text = "broadcastSentTo"}}

\* C31: the count in the summary of a broadcast is the number of contacts
\* the message was sent to.
C31_SummaryCountsSends ==
    \A h \in Slots : handlers[h].kind = "send_broadcast" =>
        \A j \in ResultUpdates(h) :
            handlers[h].calls[j].count = Cardinality(SentTo(h))

\* ---------------------------------------------------------------------
\* C32 - linear scan and reverse index
\* ---------------------------------------------------------------------

\* The two lookups answer alike: both none, or both a session with the
\* same session id and thread.
SameSession(found, session) ==
    IF found = Null \/ session = Null THEN found = Null /\ session = Null
    ELSE /\ Val(found).session_id = Val(session).session_id
         /\ Val(found).thread_ts = Val(session).thread_ts

\* C32: after every sequence of session creations and closures, the linear
\* scan over the session table and the lookup through the reverse index
\* give the same answer for every thread id.
C32_LookupsAgree ==
    \A t \in Threads :
        SameSession(findSessionByThread(SESSIONS, t), getSessionByThread(redis, t))

\* ---------------------------------------------------------------------
\* C33 - only Close removes a session
\* ---------------------------------------------------------------------

\* A handler of one of the kinds takes this step.
StepOf(kinds) == \E h \in Slots : handlers[h].kind \in kinds /\ Steps(h)

\* C33: a session record or a reverse entry is removed only by a step of
\* the Close handler, and the index entries are written by the Start and
\* Close handlers alone: a timer firing, a customer message, an agent
\* reply, a contact, role or assignment command and the passage of time
\* leave every session record and reverse entry as they are.
C33_OnlyCloseRemoves ==
    [][/\ \A s \in Sessions :
            (redis.session[s] # Null /\ redis'.session[s] = Null)
            => StepOf({"close"})
       /\ \A t \in Threads :
            (redis.thread[t] # Null /\ redis'.thread[t] = Null)
            => StepOf({"close"})
       /\ (redis'.session # redis.session \/ redis'.thread # redis.thread)
            => StepOf({"start", "close"})
      ]_vars

\* The session is indexed both ways after a reminder went out to the
\* customer and into the thread, an agent reply cancelled the timers, and a
\* contact, a role and a responder were stored.
C33_Witness ==
    /\ redis.session["abc-123"] # Null
    /\ redis.thread[1] = Some("abc-123")
    /\ \E i \in DOMAIN timers : timers[i].sentWhatsApp /\ timers[i].sentSlack
    /\ pendingTimers["abc-123"] = Null
    /\ redis.contact["15551234567"] # Null
    /\ redis.roles # {}
    /\ redis.assign[<<"academy", "registration">>] # {}

\* ---------------------------------------------------------------------
\* C34 - unsupported file types
\* ---------------------------------------------------------------------

\* handleMessage of handler h has resolved a reply with files to a session
\* and has returned.
FilesHandled(h) ==
    /\ handlers[h].kind = "message" /\ handlers[h].pc = "return"
    /\ handlers[h].session # Null
    /\ Val(handlers[h].event).files # <<>>

\* The calls handler h has issued with the given api and text about file
\* number index.
CallsAbout(h, api, texts, index) ==
    {k \in DOMAIN handlers[h].calls :
        /\ handlers[h].calls[k].api = api
        /\ handlers[h].calls[k].text \in texts
        /\ handlers[h].calls[k].file = index}

\* C34: a file that is no image, video or audio is never sent to the AI
\* platform; once a message that carries such a file has been dealt with,
\* one unsupported-type notice has been posted in the thread for each such
\* file and handleFileUpload has been called for every file of the message.
C34_UnsupportedFileSkipped ==
    \A h \in Slots :
        (handlers[h].kind = "message" /\ Val(handlers[h].event).files # <<>>) =>
            LET files == Val(handlers[h].event).files
                unsupported == {i \in DOMAIN files : ~Forwardable(FileType(files[i]))}
            IN /\ \A i \in unsupported :
                      CallsAbout(h, "outbound", {"", "On it"}, i) = {}
               /\ (FilesHandled(h) /\ unsupported # {}) =>
                      /\ \A i \in unsupported :
                             Cardinality(CallsAbout(h, "thread_post",
                                                    {"unsupportedFileType"}, i)) = 1
                      /\ Val(handlers[h].work).file = Len(files)

\* ---------------------------------------------------------------------
\* C35 - nothing is sent after the disconnect
\* ---------------------------------------------------------------------

\* The AI platform has accepted the disconnect of session s: the Close
\* handler that sent it has moved on.
DisconnectSent(s) ==
    \E h \in Slots :
        /\ handlers[h].kind = "close"
        /\ handlers[h].pc \in {"notice", "update", "del_session", "del_thread"}
        /\ Val(handlers[h].session).session_id = s

\* In this step handleMessage issues the outbound post of an agent reply
\* for session s.
ReplyIssued(s) ==
    \E g \in Slots :
        /\ handlers[g].kind = "message" /\ handlers[g].pc = "get_session"
        /\ handlers'[g].pc = "send"
        /\ Val(handlers'[g].session).session_id = s

\* In this step sendBusyMessage issues the outbound post of a busy message
\* for session s.
BusyIssued(s) ==
    \E i \in DOMAIN timers :
        /\ timers[i].sid = s
        /\ timers[i].status = "get_session"
        /\ timers'[i].status = "send"

\* C35: once the disconnect of session s has been sent, no agent reply and
\* no busy message is sent to the AI platform for s.
C35_NoOutboundAfterDisconnect ==
    [][\A s \in Sessions :
           DisconnectSent(s) => ~ReplyIssued(s) /\ ~BusyIssued(s)]_vars

\* ---------------------------------------------------------------------
\* C36 - concurrent Close actions
\* ---------------------------------------------------------------------

\* The Close handlers in flight that have issued the call.
ClosersWith(call) ==
    {h \in Slots : /\ handlers[h].kind = "close"
                   /\ \E k \in DOMAIN handlers[h].calls : handlers[h].calls[k] = call}

\* C36: however Close actions for one session interleave, at most one of
\* them sends the disconnect of the session and at most one posts the
\* closure notice in its thread.
C36_OneDisconnectPerSession ==
    /\ \A s \in Sessions : Cardinality(ClosersWith(Disconnect(s))) <= 1
    /\ \A t \in Threads : Cardinality(ClosersWith(ThreadPost(t, "ticketClosed"))) <= 1

\* ---------------------------------------------------------------------
\* C37 - a Close that fails leaves the session in place
\* ---------------------------------------------------------------------

\* The close handler h has issued, and seen succeed, every call that
\* precedes deleteSession: the disconnect, the closure notice and the
\* update of the thread-opening message.
CloseCallsIssued(h) ==
    LET s == Val(handlers[h].session).session_id
        t == Val(handlers[h].ts)
    IN /\ handlers[h].session # Null
       /\ handlers[h].pc \in {"update", "del_session", "del_thread"}
       /\ handlers[h].calls =
              <<Disconnect(s), ThreadPost(t, "ticketClosed"), ChatUpdate(t)>>

\* The close handler h ends in this step without having reached
\* deleteSession's last delete: its lookup found nothing or a call failed.
CloseEndsEarly(h) ==
    /\ handlers[h].kind = "close"
    /\ handlers[h].pc # "del_thread"
    /\ handlers'[h] = Idle

TagsOf(r, phone) ==
    IF r.contact[phone] = Null THEN {}
    ELSE IF ContactParse(Val(r.contact[phone])).roles = Null THEN {}
    ELSE Val(ContactParse(Val(r.contact[phone])).roles)

\* C38: whenever no handler is in progress, every role tag stored with a
\* contact is a member of the roles set.
C38_TagsAreRegistered ==
    (\A h \in Slots : handlers[h] = Idle)
        => \A p \in Phones : TagsOf(redis, p) \subseteq redis.roles

\* ---------------------------------------------------------------------
\* C39 - "/assign clear ... @user" removes the named users only
\* ---------------------------------------------------------------------

\* The user ids a list of mentions names: the id a formatted mention
\* carries and the id of the member a plain name belongs to.
NamedIds(mentions) ==
    {MentionId(mentions[i]) :
        i \in {j \in DOMAIN mentions : mentions[j] \in FormattedMentions}}
    \cup {u.id : u \in {m \in UsersList :
              \E j \in DOMAIN mentions : /\ mentions[j] \in PlainMentions
                                         /\ PlainName(mentions[j]) = m.name}}

\* The handler h serves an "/assign clear" command that mentions a user.
ClearsNamedUsers(h) ==
    /\ handlers[h].kind = "assign"
    /\ Val(handlers[h].in).command = "clear"
    /\ Val(handlers[h].in).mentions # <<>>

\* C39: a step of an "/assign clear <school> <intent> @user" command takes
\* out of an assignment entry only user ids the command names; when the
\* named user resolves to no id, every entry stays as it was.
C39_ClearRemovesNamedOnly ==
    [][\A h \in Slots :
          (ClearsNamedUsers(h) /\ Steps(h)) =>
              \A k \in AssignKeys :
                  (redis.assign[k] \ redis'.assign[k])
                      \subseteq NamedIds(Val(handlers[h].in).mentions)
      ]_vars

\* ---------------------------------------------------------------------
\* C40 - the role-removal cascade against concurrent contact writes
\* ---------------------------------------------------------------------

\* The copy of the contact of phone that getAllContacts handed to the
\* cascade h.
CopyRead(h, phone) ==
    LET read == Val(handlers[h].work).contacts
    IN read[CHOOSE i \in DOMAIN read : read[i].phone = phone]

\* The cascade h writes its next contact in this step.
CascadeWrites(h) ==
    /\ handlers[h].kind = "remove_role"
    /\ handlers[h].pc = "set_contact"
    /\ Steps(h)

\* C40: the contact a role-removal cascade rewrites is, at the moment of
\* the write, still the contact the cascade read (no later save or role
\* edit is overwritten), and once the cascade has finished its writes and
\* no other handler is in progress, the removed role, unless it was added
\* again, is held by no contact.
C40_CascadeLosesNoUpdate ==
    [][\A h \in Slots :
          /\ CascadeWrites(h) =>
                 LET phone == Head(Val(handlers[h].work).todo).phone
                 IN /\ redis.contact[phone] # Null
                    /\ ReadContact(Val(redis.contact[phone])) = CopyRead(h, phone)
          /\ ( /\ RemoveRoleCompleted(h)
               /\ Val(handlers[h].in).role \notin redis.roles
               /\ \A g \in Slots \ {h} : handlers[g] = Idle )
                 => \A p \in Phones :
                        Val(handlers[h].in).role \notin TagsOf(redis, p)
      ]_vars
====
